---------------------------- MODULE Spec2Model ----------------------------
(***************************************************************************)
(* State-machine model of the sliding-sync connection-state store          *)
(* (synapse/storage/databases/main/sliding_sync.py).                       *)
(*                                                                         *)
(* The state is the five sliding_sync_connection* tables, the three        *)
(* auto-increment sequences that number their rows, and the memoisation    *)
(* cache of get_per_connection_state.  Every database transaction          *)
(* (runInteraction) is one atomic action.  Strings whose characters matter *)
(* (event types and state keys) are sequences of one-character strings.    *)
(* The created_ts columns are written and never read, and are left out.    *)
(***************************************************************************)
EXTENDS Integers, Sequences, FiniteSets, TLC

VARIABLES
    sliding_sync_connections,
    sliding_sync_connection_positions,
    sliding_sync_connection_required_state,
    sliding_sync_connection_streams,
    sliding_sync_connection_room_configs,
    next_connection_key,
    next_connection_position,
    next_required_state_id,
    get_cache,
    last,
    scenario

tables == <<sliding_sync_connections, sliding_sync_connection_positions,
            sliding_sync_connection_required_state,
            sliding_sync_connection_streams,
            sliding_sync_connection_room_configs>>

sequences == <<next_connection_key, next_connection_position,
               next_required_state_id>>

sync_vars == <<tables, sequences, get_cache, last, scenario>>

-----------------------------------------------------------------------------
(* Bounds of the model.                                                    *)

\* Most connection positions ever allocated in one behaviour.
MaxPositions == 2

-----------------------------------------------------------------------------
(* Input universe.                                                         *)

Users == {"@u1"}
Devices == {"d1"}
ConnIds == {"c1", "c2"}
Rooms == {"!r1", "!r2"}
Streams == {"rooms", "receipts"}

\* previous_connection_position: Optional[int]; None is modelled as 0, which
\* no auto-increment column ever holds.
NoPosition == 0

\* SQL NULL in sliding_sync_connection_streams.last_position.
NullToken == "NULL"

\* HaveSentRoom values as stored: (status.value, last_token).
HaveSentRooms ==
    { [status |-> "live", last_token |-> NullToken],
      [status |-> "previously", last_token |-> "s1"] }

Chars == {"a", "b", "m", "n"}

\* Code point of a character (Python compares str by code point).
CharCode(c) ==
    CASE c = "a" -> 97 [] c = "b" -> 98 [] c = "m" -> 109 [] c = "n" -> 110

PartialMaps(D, V) == UNION { [S -> V] : S \in SUBSET D }

EmptyMap == [x \in {} |-> x]

\* required_state_map values: event type -> set of state keys.  The first
\* has one one-character state key; the second has an event type with
\* several state keys, one of them longer than a character, and an event
\* type whose only state key is the empty string.
SingleKeyMap == (<<"m">> :> { <<"a">> })
SeveralKeysMap ==
    (<<"m">> :> { <<"a">>, <<"a", "b">> }) @@ (<<"n">> :> { <<>> })

RoomSyncConfigs ==
    { [timeline_limit |-> 1, required_state_map |-> SingleKeyMap],
      [timeline_limit |-> 2, required_state_map |-> SeveralKeysMap] }

\* The (event_type, state_key) pairs the generator of lines 159-161 yields.
StatePairs(required_state_map) ==
    UNION { { <<t, k>> : k \in required_state_map[t] } :
            t \in DOMAIN required_state_map }

\* The updates a caller may persist (PerConnectionStateDB holding only the
\* changes): either at most one status row of either stream, or room
\* configs for any of the rooms.
StatusUpdates ==
    { [rooms |-> m, receipts |-> EmptyMap, room_configs |-> EmptyMap] :
        m \in PartialMaps(Rooms, HaveSentRooms) \ {EmptyMap} }
    \cup
    { [rooms |-> EmptyMap, receipts |-> m, room_configs |-> EmptyMap] :
        m \in PartialMaps(Rooms, HaveSentRooms) \ {EmptyMap} }

ConfigUpdates ==
    { [rooms |-> EmptyMap, receipts |-> EmptyMap, room_configs |-> m] :
        m \in PartialMaps(Rooms, RoomSyncConfigs) }

PerConnectionStateDBs ==
    { u \in StatusUpdates :
        Cardinality(DOMAIN u.rooms) + Cardinality(DOMAIN u.receipts) = 1 }
    \cup ConfigUpdates

EmptyState == [rooms |-> EmptyMap, receipts |-> EmptyMap, room_configs |-> EmptyMap]

-----------------------------------------------------------------------------
(* Pure functions.                                                         *)

\* s < t for Python str: lexicographic by code point, a proper prefix first.
StrLess(s, t) ==
    \E i \in 1..Len(t) :
        /\ i - 1 <= Len(s)
        /\ \A j \in 1..(i - 1) : s[j] = t[j]
        /\ \/ Len(s) = i - 1
           \/ CharCode(s[i]) < CharCode(t[i])

\* p < q for Python tuples (event_type, state_key).
PairLess(p, q) ==
    \/ StrLess(p[1], q[1])
    \/ p[1] = q[1] /\ StrLess(p[2], q[2])

\* sorted(S) for a set S of pairs.
RECURSIVE SortedPairs(_)
SortedPairs(S) ==
    IF S = {} THEN <<>>
    ELSE LET least == CHOOSE p \in S : \A q \in S \ {p} : PairLess(p, q)
         IN  <<least>> \o SortedPairs(S \ {least})

\* json_encoder.encode(sorted(...)): the stored required_state text is the
\* JSON array of [event_type, state_key] arrays, held here as that list.
SerializeRequiredState(required_state_map) ==
    SortedPairs(StatePairs(required_state_map))

\* set(state_keys) where state_keys is the second element of a decoded
\* pair, a str: the set of its characters.
CharsOf(state_keys) == { <<state_keys[j]>> : j \in 1..Len(state_keys) }

\* Lines 325-327: state = {}; for event_type, state_keys in db_to_json(text):
\* state[event_type] = set(state_keys).  A later pair of the same event type
\* overwrites the entry an earlier one made.
DeserializeRequiredState(required_state) ==
    LET types == { required_state[i][1] : i \in 1..Len(required_state) }
        lastOf(t) == CHOOSE i \in 1..Len(required_state) :
                        /\ required_state[i][1] = t
                        /\ \A j \in (i + 1)..Len(required_state) :
                              required_state[j][1] # t
    IN  [t \in types |-> CharsOf(required_state[lastOf(t)][2])]

-----------------------------------------------------------------------------
(* Foreign keys of the schema: positions and required-state rows reference *)
(* their connection, streams and room-config rows their position, all      *)
(* ON DELETE CASCADE.                                                      *)

OnDeleteCascade(conns, poss, blobs, streams, configs) ==
    LET keys == { c.connection_key : c \in conns }
        live == { p \in poss : p.connection_key \in keys }
        ids  == { p.connection_position : p \in live }
    IN  [connections |-> conns,
         positions |-> live,
         required_state |-> { b \in blobs : b.connection_key \in keys },
         streams |-> { r \in streams : r.connection_position \in ids },
         room_configs |-> { r \in configs : r.connection_position \in ids }]

-----------------------------------------------------------------------------
(* persist_per_connection_state_txn, piece by piece.                       *)

\* Lines 83-94: the connection keys of the rows the ownership SELECT finds.
PersistSelectConnectionKey(user_id, device_id, conn_id, position) ==
    { p.connection_key : p \in
        { q \in sliding_sync_connection_positions :
            /\ q.connection_position = position
            /\ \E c \in sliding_sync_connections :
                 /\ c.connection_key = q.connection_key
                 /\ c.user_id = user_id
                 /\ c.device_id = device_id
                 /\ c.conn_id = conn_id } }

\* Lines 103-111: simple_delete_txn on sliding_sync_connections; the rows
\* that are left.
\* A restart that forgets the conn_id column of the WHERE clause.
DeleteConnectionsOfDevice(user_id, device_id, conn_id) ==
    { c \in sliding_sync_connections :
        ~ (c.user_id = user_id /\ c.device_id = device_id) }

DeleteConnections(user_id, device_id, conn_id) ==
    { c \in sliding_sync_connections :
        ~ (c.user_id = user_id /\ c.device_id = device_id /\ c.conn_id = conn_id) }

\* Lines 141-150: required_state_to_id, as the rows it is built from.
\* A persist that never looks up the blobs the key already holds.
NoRequiredStateToId(blobs, connection_key, previous_connection_position) ==
    {}

RequiredStateToId(blobs, connection_key, previous_connection_position) ==
    IF previous_connection_position # NoPosition
    THEN { b \in blobs : b.connection_key = connection_key }
    ELSE {}

\* Lines 152-169: the serialized required states of the update that
\* required_state_to_id does not hold (the keys of unique_required_state).
UniqueRequiredState(room_configs, required_state_to_id) ==
    { SerializeRequiredState(room_configs[r].required_state_map) :
        r \in DOMAIN room_configs }
    \ { b.required_state : b \in required_state_to_id }

\* A persist that draws the ids of the new required states from the
\* sequence a second time when it writes the room configs.
RoomToStateIdsDrawnAgain(room_configs, required_state_to_id, new_ids) ==
    [ r \in DOMAIN room_configs |->
        LET s == SerializeRequiredState(room_configs[r].required_state_map)
        IN  IF s \in DOMAIN new_ids
            THEN new_ids[s] + Cardinality(DOMAIN new_ids)
            ELSE (CHOOSE b \in required_state_to_id : b.required_state = s)
                     .required_state_id ]

\* Lines 165-167 and 182-183: room_to_state_ids.
RoomToStateIds(room_configs, required_state_to_id, new_ids) ==
    [ r \in DOMAIN room_configs |->
        LET s == SerializeRequiredState(room_configs[r].required_state_map)
        IN  IF s \in DOMAIN new_ids
            THEN new_ids[s]
            ELSE (CHOOSE b \in required_state_to_id : b.required_state = s)
                     .required_state_id ]

\* Lines 188-195: INSERT ... SELECT of the previous position's stream rows.
\* A copy-forward that re-labels the rows of the previous position instead
\* of copying them.
MoveForwardStreams(streams, connection_position, previous_connection_position) ==
    { IF r.connection_position = previous_connection_position
      THEN [r EXCEPT !.connection_position = connection_position]
      ELSE r : r \in streams }

CopyForwardStreams(streams, connection_position, previous_connection_position) ==
    streams \cup
    { [r EXCEPT !.connection_position = connection_position] :
        r \in { x \in streams :
                  x.connection_position = previous_connection_position } }

\* Lines 197-204: INSERT ... SELECT of the previous position's room configs.
CopyForwardRoomConfigs(configs, connection_position, previous_connection_position) ==
    configs \cup
    { [r EXCEPT !.connection_position = connection_position] :
        r \in { x \in configs :
                  x.connection_position = previous_connection_position } }

\* Lines 206-235: upsert of the status rows keyed by
\* (connection_position, stream, room_id).
UpsertStreams(streams, connection_position, rooms, receipts) ==
    LET rows == { [connection_position |-> connection_position,
                   stream |-> "rooms", room_id |-> r,
                   room_status |-> rooms[r].status,
                   last_position |-> rooms[r].last_token] : r \in DOMAIN rooms }
                \cup
                { [connection_position |-> connection_position,
                   stream |-> "receipts", room_id |-> r,
                   room_status |-> receipts[r].status,
                   last_position |-> receipts[r].last_token] :
                     r \in DOMAIN receipts }
    IN  { x \in streams :
            ~ \E n \in rows : /\ n.connection_position = x.connection_position
                              /\ n.stream = x.stream
                              /\ n.room_id = x.room_id }
        \cup rows

\* Lines 237-257: upsert of the room configs keyed by
\* (connection_position, room_id).
\* An insert of the room configs that keeps the rows it should replace.
InsertRoomConfigs(configs, connection_position, room_configs, room_to_state_ids) ==
    configs \cup
    { [connection_position |-> connection_position,
       room_id |-> r,
       timeline_limit |-> room_configs[r].timeline_limit,
       required_state_id |-> room_to_state_ids[r]] :
         r \in DOMAIN room_configs }

UpsertRoomConfigs(configs, connection_position, room_configs, room_to_state_ids) ==
    LET rows == { [connection_position |-> connection_position,
                   room_id |-> r,
                   timeline_limit |-> room_configs[r].timeline_limit,
                   required_state_id |-> room_to_state_ids[r]] :
                     r \in DOMAIN room_configs }
    IN  { x \in configs :
            ~ \E n \in rows : /\ n.connection_position = x.connection_position
                              /\ n.room_id = x.room_id }
        \cup rows

Bijections(S, T) ==
    { f \in [S -> T] : \A a, b \in S : a # b => f[a] # f[b] }

-----------------------------------------------------------------------------
(* _get_per_connection_state_txn, piece by piece.                          *)

\* Lines 288-297: the connection keys of the rows the ownership SELECT finds.
GetSelectConnectionKey(user_id, device_id, conn_id, position) ==
    { p.connection_key : p \in
        { q \in sliding_sync_connection_positions :
            /\ q.connection_position = position
            /\ \E c \in sliding_sync_connections :
                 /\ c.connection_key = q.connection_key
                 /\ c.user_id = user_id
                 /\ c.device_id = device_id
                 /\ c.conn_id = conn_id } }

\* Lines 305-309: DELETE FROM sliding_sync_connection_positions WHERE
\* connection_key = ? AND connection_position != ?; the rows that are left.
\* A compaction that deletes nothing.
CompactNoPosition(connection_key, connection_position) ==
    sliding_sync_connection_positions

\* A compaction that forgets the connection_key column of the WHERE clause.
CompactPositionsOfEveryKey(connection_key, connection_position) ==
    { p \in sliding_sync_connection_positions :
        p.connection_position = connection_position }

\* A compaction that deletes only the positions older than the validated
\* one.
CompactOlderPositions(connection_key, connection_position) ==
    { p \in sliding_sync_connection_positions :
        ~ ( /\ p.connection_key = connection_key
            /\ p.connection_position < connection_position ) }

CompactPositions(connection_key, connection_position) ==
    { p \in sliding_sync_connection_positions :
        ~ ( /\ p.connection_key = connection_key
            /\ p.connection_position # connection_position ) }

\* Lines 313-327: required_state_map, from required state id to the map
\* rebuilt from the stored text.
RequiredStateMapById(blobs, connection_key) ==
    LET rows == { b \in blobs : b.connection_key = connection_key }
    IN  [ id \in { b.required_state_id : b \in rows } |->
            DeserializeRequiredState(
                (CHOOSE b \in rows : b.required_state_id = id).required_state) ]

\* Lines 331-351: room_configs of the position.
ReadRoomConfigs(configs, connection_position, required_state_map) ==
    LET rows == { r \in configs : r.connection_position = connection_position }
    IN  [ room \in { r.room_id : r \in rows } |->
            LET r == CHOOSE x \in rows : x.room_id = room
            IN  [timeline_limit |-> r.timeline_limit,
                 required_state_map |-> required_state_map[r.required_state_id]] ]

\* Lines 354-375: the statuses of one stream of the position.
ReadStreams(streams, connection_position, stream) ==
    LET rows == { r \in streams : /\ r.connection_position = connection_position
                                  /\ r.stream = stream }
    IN  [ room \in { r.room_id : r \in rows } |->
            LET r == CHOOSE x \in rows : x.room_id = room
            IN  [status |-> r.room_status, last_token |-> r.last_position] ]

\* Lines 311-381: the PerConnectionStateDB the transaction returns.
ReadState(blobs, configs, streams, connection_key, connection_position) ==
    [rooms |-> ReadStreams(streams, connection_position, "rooms"),
     receipts |-> ReadStreams(streams, connection_position, "receipts"),
     room_configs |->
        ReadRoomConfigs(configs, connection_position,
                        RequiredStateMapById(blobs, connection_key))]

\* Line 350: required_state_map[required_state_id] raises KeyError when a
\* room config of the position names a required state id the connection
\* does not hold.
MissingRequiredState(blobs, configs, connection_key, connection_position) ==
    \E r \in configs :
        /\ r.connection_position = connection_position
        /\ ~ \E b \in blobs : /\ b.connection_key = connection_key
                              /\ b.required_state_id = r.required_state_id

-----------------------------------------------------------------------------
(* What a call answers in the current state.                               *)

\* Lines 80-96: the exception persist_per_connection_state raises, or
\* "none".
PersistResult(user_id, device_id, conn_id, previous_connection_position) ==
    IF /\ previous_connection_position # NoPosition
       /\ PersistSelectConnectionKey(user_id, device_id, conn_id,
                                     previous_connection_position) = {}
    THEN "SlidingSyncUnknownPosition"
    ELSE "none"

\* Line 261: @cached keys the memo by the four arguments.
GetCached(user_id, device_id, conn_id, connection_position) ==
    <<user_id, device_id, conn_id, connection_position>> \in DOMAIN get_cache

\* The tables as the read transaction leaves them when it commits.
GetCompacted(user_id, device_id, conn_id, connection_position) ==
    LET row == GetSelectConnectionKey(user_id, device_id, conn_id,
                                      connection_position)
    IN  OnDeleteCascade(
            sliding_sync_connections,
            CompactPositions(CHOOSE k \in row : TRUE, connection_position),
            sliding_sync_connection_required_state,
            sliding_sync_connection_streams,
            sliding_sync_connection_room_configs)

\* Lines 261-351: the exception get_per_connection_state raises, or "none".
\* A memoised result is returned before the transaction is entered.
GetResult(user_id, device_id, conn_id, connection_position) ==
    LET row == GetSelectConnectionKey(user_id, device_id, conn_id,
                                      connection_position)
        kept == GetCompacted(user_id, device_id, conn_id, connection_position)
    IN  IF GetCached(user_id, device_id, conn_id, connection_position)
        THEN "none"
        ELSE IF row = {}
        THEN "SlidingSyncUnknownPosition"
        ELSE IF MissingRequiredState(kept.required_state, kept.room_configs,
                                     CHOOSE k \in row : TRUE,
                                     connection_position)
        THEN "KeyError"
        ELSE "none"

-----------------------------------------------------------------------------
(* Observation of calls.                                                   *)

Call(op, user_id, device_id, conn_id, position, update, raised, returned, deleted) ==
    [op |-> op, user_id |-> user_id, device_id |-> device_id,
     conn_id |-> conn_id, position |-> position, update |-> update,
     raised |-> raised, returned |-> returned, deleted |-> deleted]

\* last: the last call whose transaction committed, with the update a
\* persist applied, the position it returned, and the connection positions
\* the transaction's DELETE removed.
NoCall ==
    Call("none", "", "", "", NoPosition, EmptyState, "none", NoPosition, {})

PositionIds(positions) == { p.connection_position : p \in positions }

NoScenario ==
    [stage |-> 0, user_id |-> "", device_id |-> "", conn_id |-> "",
     p1 |-> NoPosition, p2 |-> NoPosition, raised |-> "none"]

SameConnection(a, b) ==
    a.user_id = b.user_id /\ a.device_id = b.device_id /\ a.conn_id = b.conn_id

\* Follows the calls of the end-to-end scenario: persist with no previous
\* position (stage 1, returning p1), persist on p1 (stage 2, returning p2),
\* get on p2 (stage 3), get on p1 (stage 4), made one right after the other
\* on one connection; raised is what the latest of them raised.
ScenarioStep(s, call) ==
    IF call.op = "persist" /\ call.position = NoPosition
    THEN [stage |-> 1, user_id |-> call.user_id, device_id |-> call.device_id,
          conn_id |-> call.conn_id, p1 |-> call.returned, p2 |-> NoPosition,
          raised |-> call.raised]
    ELSE IF /\ s.stage = 1 /\ SameConnection(s, call)
            /\ call.op = "persist" /\ call.position = s.p1
    THEN [s EXCEPT !.stage = 2, !.p2 = call.returned, !.raised = call.raised]
    ELSE IF /\ s.stage = 2 /\ SameConnection(s, call)
            /\ call.op = "get" /\ call.position = s.p2
    THEN [s EXCEPT !.stage = 3, !.raised = call.raised]
    ELSE IF /\ s.stage = 3 /\ SameConnection(s, call)
            /\ call.op = "get" /\ call.position = s.p1
    THEN [s EXCEPT !.stage = 4, !.raised = call.raised]
    ELSE NoScenario

\* A call that committed.
Committed(call) ==
    /\ last' = call
    /\ scenario' = ScenarioStep(scenario, call)

\* A call that raised (its transaction rolled back) or that the memo
\* answered: nothing is written.
Answered(call) ==
    /\ UNCHANGED <<tables, sequences, get_cache, last>>
    /\ scenario' = ScenarioStep(scenario, call)

-----------------------------------------------------------------------------
(* Operations.                                                             *)

\* persist_per_connection_state: one transaction.  A raise rolls it back.
persist_per_connection_state(user_id, device_id, conn_id, previous_connection_position, per_connection_state) ==
    LET row == PersistSelectConnectionKey(user_id, device_id, conn_id,
                                          previous_connection_position)
        raised == PersistResult(user_id, device_id, conn_id,
                                previous_connection_position)
    IN
    IF raised # "none"
    THEN Answered(Call("persist", user_id, device_id, conn_id,
                       previous_connection_position, EmptyState,
                       raised, NoPosition, {}))
    ELSE
    LET restart == previous_connection_position = NoPosition
        kept == IF restart
                THEN OnDeleteCascade(
                        DeleteConnections(user_id, device_id, conn_id),
                        sliding_sync_connection_positions,
                        sliding_sync_connection_required_state,
                        sliding_sync_connection_streams,
                        sliding_sync_connection_room_configs)
                ELSE [connections |-> sliding_sync_connections,
                      positions |-> sliding_sync_connection_positions,
                      required_state |-> sliding_sync_connection_required_state,
                      streams |-> sliding_sync_connection_streams,
                      room_configs |-> sliding_sync_connection_room_configs]
        connection_key == IF restart THEN next_connection_key
                          ELSE CHOOSE k \in row : TRUE
        connection_position == next_connection_position
        required_state_to_id ==
            RequiredStateToId(kept.required_state, connection_key,
                              previous_connection_position)
        unique_required_state ==
            UniqueRequiredState(per_connection_state.room_configs,
                                required_state_to_id)
        fresh == next_required_state_id ..
                 (next_required_state_id + Cardinality(unique_required_state) - 1)
    IN
    /\ next_connection_position <= MaxPositions
    \* The ids follow the order in which the caller's dict lists the rooms.
    /\ \E new_ids \in Bijections(unique_required_state, fresh) :
        LET room_to_state_ids ==
                RoomToStateIds(per_connection_state.room_configs,
                               required_state_to_id, new_ids)
            copied_streams ==
                IF restart THEN kept.streams
                ELSE CopyForwardStreams(kept.streams, connection_position,
                                        previous_connection_position)
            copied_configs ==
                IF restart THEN kept.room_configs
                ELSE CopyForwardRoomConfigs(kept.room_configs,
                                            connection_position,
                                            previous_connection_position)
        IN
        /\ sliding_sync_connections' =
              IF restart
              THEN kept.connections \cup
                   { [connection_key |-> connection_key, user_id |-> user_id,
                      device_id |-> device_id, conn_id |-> conn_id] }
              ELSE kept.connections
        /\ sliding_sync_connection_positions' =
              kept.positions \cup
              { [connection_position |-> connection_position,
                 connection_key |-> connection_key] }
        /\ sliding_sync_connection_required_state' =
              kept.required_state \cup
              { [required_state_id |-> new_ids[x],
                 connection_key |-> connection_key,
                 required_state |-> x] : x \in unique_required_state }
        /\ sliding_sync_connection_streams' =
              UpsertStreams(copied_streams, connection_position,
                            per_connection_state.rooms,
                            per_connection_state.receipts)
        /\ sliding_sync_connection_room_configs' =
              UpsertRoomConfigs(copied_configs, connection_position,
                                per_connection_state.room_configs,
                                room_to_state_ids)
        /\ next_connection_key' =
              IF restart THEN next_connection_key + 1 ELSE next_connection_key
        /\ next_connection_position' = next_connection_position + 1
        /\ next_required_state_id' =
              next_required_state_id + Cardinality(unique_required_state)
        /\ UNCHANGED get_cache
        /\ Committed(Call("persist", user_id, device_id, conn_id,
                          previous_connection_position, per_connection_state,
                          "none", connection_position,
                          PositionIds(sliding_sync_connection_positions
                                      \ kept.positions)))

\* get_per_connection_state: a hit of the @cached memo returns the stored
\* result without touching the database; a miss runs one transaction and
\* stores its result, not its failure.  max_entries (100000) is never
\* reached within the bounds, so no entry is evicted.
get_per_connection_state(user_id, device_id, conn_id, connection_position) ==
    LET row == GetSelectConnectionKey(user_id, device_id, conn_id,
                                      connection_position)
        kept == GetCompacted(user_id, device_id, conn_id, connection_position)
        raised == GetResult(user_id, device_id, conn_id, connection_position)
        call == Call("get", user_id, device_id, conn_id, connection_position,
                     EmptyState, raised, NoPosition,
                     IF row = {} \/ raised # "none" THEN {}
                     ELSE PositionIds(sliding_sync_connection_positions
                                      \ kept.positions))
    IN
    IF GetCached(user_id, device_id, conn_id, connection_position)
          \/ raised # "none"
    THEN Answered(call)
    ELSE /\ sliding_sync_connections' = kept.connections
         /\ sliding_sync_connection_positions' = kept.positions
         /\ sliding_sync_connection_required_state' = kept.required_state
         /\ sliding_sync_connection_streams' = kept.streams
         /\ sliding_sync_connection_room_configs' = kept.room_configs
         /\ UNCHANGED sequences
         /\ get_cache' =
              (<<user_id, device_id, conn_id, connection_position>> :>
                  ReadState(kept.required_state, kept.room_configs,
                            kept.streams, CHOOSE k \in row : TRUE,
                            connection_position))
              @@ get_cache
         /\ Committed(call)

-----------------------------------------------------------------------------
(* Specification.                                                          *)

-----------------------------------------------------------------------------
(* State of the event background updates (events_bg_updates.py).  Each     *)
(* subsystem has a specification of its own; while one runs, the tables of *)
(* the others are at rest.                                                 *)

VARIABLES
    events,
    event_edges,
    event_json,
    rejections,
    event_forward_extremities,
    extremities_to_check,
    latest_event_ids_invalidated,
    cleanup_job,
    cleanup_history,
    state_events,
    event_auth_chains,
    event_auth_chain_to_calculate,
    rooms,
    chain_cover_progress,
    chain_cover_job,
    chain_cover_history,
    event_auth_chain_links,
    purged_chain_cover_progress,
    purged_chain_cover_job,
    current_state_events,
    current_state_delta_stream,
    sliding_sync_joined_rooms,
    joined_rooms_progress,
    joined_rooms_job,
    joined_rooms_history,
    local_current_membership,
    room_memberships,
    sliding_sync_membership_snapshots,
    membership_snapshots_progress,
    membership_snapshots_job,
    membership_snapshots_history,
    redactions,
    event_labels,
    background_updates,
    schema,
    clock,
    reindex_job,
    reindex_history

\* Tables and job state of the purged_chain_cover update.
purge_only_vars == <<event_auth_chain_links, purged_chain_cover_progress, purged_chain_cover_job>>

\* Tables and job state of the sliding_sync_joined_rooms_backfill update.
joined_only_vars == <<current_state_events, current_state_delta_stream, sliding_sync_joined_rooms, joined_rooms_progress, joined_rooms_job, joined_rooms_history>>

\* Tables and job state of the sliding_sync_membership_snapshots_backfill
\* update.
snapshot_only_vars == <<local_current_membership, room_memberships, sliding_sync_membership_snapshots, membership_snapshots_progress, membership_snapshots_job, membership_snapshots_history>>

\* Tables, schema objects, the background_updates rows and the handler
\* position of the reindexing, pruning and one-shot schema updates.
reindex_only_vars == <<redactions, event_labels, background_updates, schema, clock, reindex_job, reindex_history>>

backfill_only_vars == <<purge_only_vars, joined_only_vars, snapshot_only_vars, reindex_only_vars>>

PurgeAtRest ==
    /\ event_auth_chain_links = {}
    /\ purged_chain_cover_progress = {}
    /\ purged_chain_cover_job = {}

JoinedAtRest ==
    /\ current_state_events = {}
    /\ current_state_delta_stream = {}
    /\ sliding_sync_joined_rooms = {}
    /\ joined_rooms_progress = {}
    /\ joined_rooms_job = {}
    /\ joined_rooms_history = {}

SnapshotAtRest ==
    /\ local_current_membership = {}
    /\ room_memberships = {}
    /\ sliding_sync_membership_snapshots = {}
    /\ membership_snapshots_progress = {}
    /\ membership_snapshots_job = {}
    /\ membership_snapshots_history = {}

ReindexAtRest ==
    /\ redactions = {}
    /\ event_labels = {}
    /\ background_updates = {}
    /\ schema = {}
    /\ clock = 0
    /\ reindex_job = {}
    /\ reindex_history = {}

BackfillAtRest == PurgeAtRest /\ JoinedAtRest /\ SnapshotAtRest /\ ReindexAtRest

\* Tables and job state of the delete_soft_failed_extremities update.
cleanup_only_vars == <<event_edges, event_json, rejections, event_forward_extremities, extremities_to_check, latest_event_ids_invalidated, cleanup_job, cleanup_history>>

cleanup_vars == <<events, cleanup_only_vars>>

\* Tables and job state of the chain_cover update.
chain_only_vars == <<state_events, event_auth_chains, event_auth_chain_to_calculate, rooms, chain_cover_progress, chain_cover_job, chain_cover_history>>

chain_vars == <<events, chain_only_vars>>

CleanupAtRest ==
    /\ event_edges = {}
    /\ event_json = {}
    /\ rejections = {}
    /\ event_forward_extremities = {}
    /\ extremities_to_check = {}
    /\ latest_event_ids_invalidated = {}
    /\ cleanup_job = {}
    /\ cleanup_history = {}

ChainAtRest ==
    /\ state_events = {}
    /\ event_auth_chains = {}
    /\ event_auth_chain_to_calculate = {}
    /\ rooms = {}
    /\ chain_cover_progress = {}
    /\ chain_cover_job = {}
    /\ chain_cover_history = {}

SyncAtRest ==
    /\ sliding_sync_connections = {}
    /\ sliding_sync_connection_positions = {}
    /\ sliding_sync_connection_required_state = {}
    /\ sliding_sync_connection_streams = {}
    /\ sliding_sync_connection_room_configs = {}
    /\ next_connection_key = 1
    /\ next_connection_position = 1
    /\ next_required_state_id = 1
    /\ get_cache = {}
    /\ last = {}
    /\ scenario = {}

SyncInit ==
    /\ sliding_sync_connections = {}
    /\ sliding_sync_connection_positions = {}
    /\ sliding_sync_connection_required_state = {}
    /\ sliding_sync_connection_streams = {}
    /\ sliding_sync_connection_room_configs = {}
    /\ next_connection_key = 1
    /\ next_connection_position = 1
    /\ next_required_state_id = 1
    /\ get_cache = EmptyMap
    /\ last = NoCall
    /\ scenario = NoScenario
    /\ events = {}
    /\ CleanupAtRest
    /\ ChainAtRest
    /\ BackfillAtRest

\* A call the ownership check rejects raises before it reads the update, so
\* one update stands for all of them there.
Persist ==
    \E user_id \in Users, device_id \in Devices, conn_id \in ConnIds,
       previous_connection_position \in 0..MaxPositions :
        \E per_connection_state \in
              IF PersistResult(user_id, device_id, conn_id,
                               previous_connection_position) # "none"
              THEN {EmptyState}
              ELSE PerConnectionStateDBs :
            persist_per_connection_state(user_id, device_id, conn_id,
                                         previous_connection_position,
                                         per_connection_state)

Get ==
    \E user_id \in Users, device_id \in Devices, conn_id \in ConnIds,
       connection_position \in 1..MaxPositions :
        get_per_connection_state(user_id, device_id, conn_id,
                                 connection_position)

OthersAtRest == UNCHANGED <<cleanup_vars, chain_only_vars, backfill_only_vars>>

SyncNext ==
    \/ Persist /\ OthersAtRest
    \/ Get /\ OthersAtRest

SyncSpec == SyncInit /\ [][SyncNext]_sync_vars

-----------------------------------------------------------------------------
(* Vocabulary of the properties.                                           *)

ConnectionKeysOf(user_id, device_id, conn_id) ==
    { c.connection_key : c \in
        { x \in sliding_sync_connections :
            /\ x.user_id = user_id
            /\ x.device_id = device_id
            /\ x.conn_id = conn_id } }

\* The connection key a live position belongs to.
KeyOfPosition(positions, position) ==
    (CHOOSE p \in positions : p.connection_position = position).connection_key

\* The transition commits a transaction of the named operation.
Commits(op) == last' # last /\ last'.op = op

Unknown == "SlidingSyncUnknownPosition"

\* The status rows of a position, as (stream, room, status, last position).
StatusRows(streams, position) ==
    { <<r.stream, r.room_id, r.room_status, r.last_position>> :
        r \in { x \in streams : x.connection_position = position } }

\* The room configs of a position, as (room, timeline limit, required
\* state id).
ConfigRows(configs, position) ==
    { <<r.room_id, r.timeline_limit, r.required_state_id>> :
        r \in { x \in configs : x.connection_position = position } }

-----------------------------------------------------------------------------
(* Properties.                                                             *)

\* C1: end-to-end scenario.  persist with no previous position returns P1
\* and leaves exactly one connection key for the triple, with P1 under it;
\* persist with previous=P1 returns another position P2 under the same key;
\* get on P2 succeeds and deletes P1; get on P1 then raises
\* SlidingSyncUnknownPosition.
EndToEndConnectionScenario ==
    LET keys == ConnectionKeysOf(scenario.user_id, scenario.device_id,
                                 scenario.conn_id)
        ids == PositionIds(sliding_sync_connection_positions)
        under(position) ==
            /\ position \in ids
            /\ KeyOfPosition(sliding_sync_connection_positions, position) \in keys
    IN  /\ scenario.stage = 1 =>
            /\ scenario.raised = "none"
            /\ Cardinality(keys) = 1
            /\ under(scenario.p1)
        /\ scenario.stage = 2 =>
            /\ scenario.raised = "none"
            /\ scenario.p2 # scenario.p1
            /\ Cardinality(keys) = 1
            /\ under(scenario.p1) /\ under(scenario.p2)
        /\ scenario.stage = 3 =>
            /\ scenario.raised = "none"
            /\ scenario.p1 \notin ids
            /\ under(scenario.p2)
        /\ scenario.stage = 4 => scenario.raised = Unknown

\* Witness of C1: the four calls of the scenario have been made.
EndToEndScenarioCompleted == scenario.stage = 4

DeletedPositionStaysUnknown ==
    \A user_id \in Users, device_id \in Devices, conn_id \in ConnIds,
       Q \in 1..(next_connection_position - 1) :
        Q \notin PositionIds(sliding_sync_connection_positions)
            => GetResult(user_id, device_id, conn_id, Q) = Unknown

\* C4 (as claimed): the compaction of a get on P deletes no position of
\* P's key that was created after P.
CompactionSparesNewerPositions ==
    [][ Commits("get") =>
          LET P == last'.position
              k == KeyOfPosition(sliding_sync_connection_positions, P)
          IN  \A q \in sliding_sync_connection_positions :
                q.connection_key = k /\ q.connection_position > P
                    => q \in sliding_sync_connection_positions'
      ]_sync_vars

\* C4 (amended): the compaction of a get on P deletes exactly the other
\* positions of P's key, newer ones as well as older ones, so a position
\* that persist(previous=P) created before the get ran is deleted by it;
\* a persist with a previous position deletes no position, so a position
\* created after the get committed is live when the persist returns.
CompactionRemovesEveryOtherPosition ==
    [][ /\ Commits("get") =>
            LET P == last'.position
                k == KeyOfPosition(sliding_sync_connection_positions, P)
            IN  \A q \in sliding_sync_connection_positions :
                    q \in sliding_sync_connection_positions'
                        <=> (q.connection_key # k \/ q.connection_position = P)
        /\ Commits("persist") /\ last'.position # NoPosition =>
            /\ sliding_sync_connection_positions
                  \subseteq sliding_sync_connection_positions'
            /\ last'.returned \in PositionIds(sliding_sync_connection_positions')
            /\ last'.position \in PositionIds(sliding_sync_connection_positions')
      ]_sync_vars

\* Witness of C4: a get on P has just deleted a position created after P.
GetDeletedNewerPosition ==
    /\ last.op = "get"
    /\ \E q \in last.deleted : q > last.position

\* C5 (as claimed): a persist with a previous position, or a get, whose
\* position does not exist or belongs to another triple raises
\* SlidingSyncUnknownPosition, and the call changes no table.
UnownedPositionIsRejected ==
    /\ [] ( \A user_id \in Users, device_id \in Devices, conn_id \in ConnIds,
               position \in 1..MaxPositions :
                GetSelectConnectionKey(user_id, device_id, conn_id, position) = {}
                    => /\ PersistResult(user_id, device_id, conn_id, position)
                          = Unknown
                       /\ GetResult(user_id, device_id, conn_id, position)
                          = Unknown )
    /\ [][ \A user_id \in Users, device_id \in Devices, conn_id \in ConnIds,
              position \in 1..MaxPositions :
                /\ GetSelectConnectionKey(user_id, device_id, conn_id, position) = {}
                /\ \/ get_per_connection_state(user_id, device_id, conn_id,
                                               position)
                   \/ persist_per_connection_state(user_id, device_id, conn_id,
                                                   position, EmptyState)
                => UNCHANGED <<tables, sequences>>
         ]_sync_vars

\* C6: no triple ever has two connection keys.  A persist with no previous
\* position deletes the keys of its triple and every position under them,
\* inserts one fresh key and one position under it, and leaves the keys of
\* other triples as they were; a persist with a previous position leaves
\* the connection keys as they were.
AtMostOneKeyPerTriple ==
    /\ [] ( \A user_id \in Users, device_id \in Devices, conn_id \in ConnIds :
               Cardinality(ConnectionKeysOf(user_id, device_id, conn_id)) <= 1 )
    /\ [][ Commits("persist") =>
             LET old == { x \in sliding_sync_connections : SameConnection(x, last') }
                 old_keys == { x.connection_key : x \in old }
                 new == sliding_sync_connections' \ sliding_sync_connections
             IN  IF last'.position = NoPosition
                 THEN /\ Cardinality(new) = 1
                      /\ \A x \in new :
                           /\ SameConnection(x, last')
                           /\ sliding_sync_connection_positions' =
                                { q \in sliding_sync_connection_positions :
                                    q.connection_key \notin old_keys }
                                \cup { [connection_position |-> last'.returned,
                                        connection_key |-> x.connection_key] }
                      /\ sliding_sync_connections' =
                           (sliding_sync_connections \ old) \cup new
                      /\ last'.returned \notin
                           PositionIds(sliding_sync_connection_positions)
                 ELSE /\ sliding_sync_connections' = sliding_sync_connections
                      /\ sliding_sync_connection_positions' =
                           sliding_sync_connection_positions \cup
                           { [connection_position |-> last'.returned,
                              connection_key |->
                                KeyOfPosition(sliding_sync_connection_positions,
                                              last'.position)] }
         ]_sync_vars

\* Witness of C6: a persist with no previous position has just replaced a
\* connection key that had positions.
RestartReplacedKey ==
    /\ last.op = "persist"
    /\ last.position = NoPosition
    /\ last.deleted # {}

\* C7: after persist with previous position P returns N, the status rows of
\* N are those of P with the rows of the update's (stream, room) keys
\* replaced by the update's, and the room configs of N are those of P with
\* the configs of the update's rooms replaced by the update's timeline limit
\* and required state; N has no other rows.
CopyForwardThenOverride ==
    [][ Commits("persist") /\ last'.position # NoPosition =>
          LET P == last'.position
              N == last'.returned
              update == last'.update
              k == KeyOfPosition(sliding_sync_connection_positions, P)
              mentioned(stream, room) ==
                  \/ stream = "rooms" /\ room \in DOMAIN update.rooms
                  \/ stream = "receipts" /\ room \in DOMAIN update.receipts
              configs_of_N == ConfigRows(sliding_sync_connection_room_configs', N)
          IN  /\ StatusRows(sliding_sync_connection_streams', N) =
                    { t \in StatusRows(sliding_sync_connection_streams, P) :
                        ~ mentioned(t[1], t[2]) }
                    \cup { <<"rooms", r, update.rooms[r].status,
                             update.rooms[r].last_token>> :
                             r \in DOMAIN update.rooms }
                    \cup { <<"receipts", r, update.receipts[r].status,
                             update.receipts[r].last_token>> :
                             r \in DOMAIN update.receipts }
              /\ { t \in configs_of_N : t[1] \notin DOMAIN update.room_configs }
                 = { t \in ConfigRows(sliding_sync_connection_room_configs, P) :
                       t[1] \notin DOMAIN update.room_configs }
              /\ \A r \in DOMAIN update.room_configs :
                    \E t \in configs_of_N :
                        /\ t[1] = r
                        /\ t[2] = update.room_configs[r].timeline_limit
                        /\ \E b \in sliding_sync_connection_required_state' :
                              /\ b.required_state_id = t[3]
                              /\ b.connection_key = k
                              /\ b.required_state =
                                   SerializeRequiredState(
                                     update.room_configs[r].required_state_map)
                        /\ \A u \in configs_of_N : u[1] = r => u = t
      ]_sync_vars

\* Witness of C7: the position a persist has just returned holds a row
\* copied from the previous position and a row the update replaced with
\* other values.
CopiedAndOverridden ==
    /\ last.op = "persist"
    /\ last.position # NoPosition
    /\ \/ /\ \E t \in ConfigRows(sliding_sync_connection_room_configs, last.returned) :
                t[1] \notin DOMAIN last.update.room_configs
          /\ \E t \in ConfigRows(sliding_sync_connection_room_configs, last.returned),
                u \in ConfigRows(sliding_sync_connection_room_configs, last.position) :
                t[1] = u[1] /\ t # u
       \/ /\ \E t \in StatusRows(sliding_sync_connection_streams, last.returned) :
                t \in StatusRows(sliding_sync_connection_streams, last.position)
          /\ \E t \in StatusRows(sliding_sync_connection_streams, last.returned),
                u \in StatusRows(sliding_sync_connection_streams, last.position) :
                t[1] = u[1] /\ t[2] = u[2] /\ t # u

\* C8: under one connection key a required-state content is stored once.
\* No two blobs of a key hold the same content, a persist inserts a blob
\* only for a content the key does not hold yet, and room configs under one
\* key whose required state is equal refer to the same blob id, whether
\* they were written by one call or by several.
RequiredStateStoredOnce ==
    /\ [] ( /\ \A b1, b2 \in sliding_sync_connection_required_state :
                  /\ b1.connection_key = b2.connection_key
                  /\ b1.required_state = b2.required_state
                  => b1.required_state_id = b2.required_state_id
            /\ \A r1, r2 \in sliding_sync_connection_room_configs :
                  \A b1, b2 \in sliding_sync_connection_required_state :
                     /\ b1.required_state_id = r1.required_state_id
                     /\ b2.required_state_id = r2.required_state_id
                     /\ KeyOfPosition(sliding_sync_connection_positions,
                                      r1.connection_position)
                        = KeyOfPosition(sliding_sync_connection_positions,
                                        r2.connection_position)
                     /\ b1.required_state = b2.required_state
                     => r1.required_state_id = r2.required_state_id )
    /\ [][ \A b \in sliding_sync_connection_required_state'
                      \ sliding_sync_connection_required_state :
              /\ Commits("persist")
              /\ \A o \in sliding_sync_connection_required_state :
                    ~ ( /\ o.connection_key = b.connection_key
                        /\ o.required_state = b.required_state )
              /\ \E r \in DOMAIN last'.update.room_configs :
                    b.required_state =
                      SerializeRequiredState(
                        last'.update.room_configs[r].required_state_map)
         ]_sync_vars

\* Witness of C8: one persist wrote two rooms with the same required state,
\* a content the previous position already referred to, and all three
\* configs share one blob id.
SharedBlobAcrossRoomsAndCalls ==
    /\ last.op = "persist"
    /\ last.position # NoPosition
    /\ \E t1, t2 \in ConfigRows(sliding_sync_connection_room_configs, last.returned),
          t0 \in ConfigRows(sliding_sync_connection_room_configs, last.position) :
          /\ t1[1] # t2[1]
          /\ {t1[1], t2[1]} \subseteq DOMAIN last.update.room_configs
          /\ t1[3] = t2[3]
          /\ t2[3] = t0[3]

\* C9: a room config written by persist reads back unchanged at the
\* position persist returned: the same timeline limit and the same map of
\* event type to set of state keys, for maps with several state keys under
\* one event type, state keys longer than one character, and the empty
\* state key.
RoomConfigRoundTrip ==
    [][ Commits("persist") =>
          LET N == last'.returned
              k == KeyOfPosition(sliding_sync_connection_positions', N)
              read == ReadState(sliding_sync_connection_required_state',
                                sliding_sync_connection_room_configs',
                                sliding_sync_connection_streams', k, N)
          IN  \A r \in DOMAIN last'.update.room_configs :
                 /\ r \in DOMAIN read.room_configs
                 /\ read.room_configs[r] = last'.update.room_configs[r]
      ]_sync_vars

\* C10: a position's rows never change after it is written.  Every position
\* that survives a step has the status rows, the room configs and the
\* readable state it had before the step, so the state memoised for a live
\* position equals what a fresh read of it returns.
PositionsAreImmutable ==
    /\ [][ \A q \in sliding_sync_connection_positions
                      \cap sliding_sync_connection_positions' :
              /\ StatusRows(sliding_sync_connection_streams', q.connection_position)
                 = StatusRows(sliding_sync_connection_streams, q.connection_position)
              /\ ConfigRows(sliding_sync_connection_room_configs', q.connection_position)
                 = ConfigRows(sliding_sync_connection_room_configs, q.connection_position)
              /\ ReadState(sliding_sync_connection_required_state',
                           sliding_sync_connection_room_configs',
                           sliding_sync_connection_streams',
                           q.connection_key, q.connection_position)
                 = ReadState(sliding_sync_connection_required_state,
                             sliding_sync_connection_room_configs,
                             sliding_sync_connection_streams,
                             q.connection_key, q.connection_position)
         ]_sync_vars
    /\ [] ( \A args \in DOMAIN get_cache :
              \A q \in sliding_sync_connection_positions :
                 /\ q.connection_position = args[4]
                 /\ q.connection_key \in ConnectionKeysOf(args[1], args[2], args[3])
                 => get_cache[args] =
                      ReadState(sliding_sync_connection_required_state,
                                sliding_sync_connection_room_configs,
                                sliding_sync_connection_streams,
                                q.connection_key, q.connection_position) )

\* Witness of C10: a persist has just written a position whose rows differ
\* from those of its previous position, which had rows and
\* is still stored.
SuccessorDiffersFromLivePredecessor ==
    /\ last.op = "persist"
    /\ last.position # NoPosition
    /\ last.position \in PositionIds(sliding_sync_connection_positions)
    /\ \/ /\ StatusRows(sliding_sync_connection_streams, last.position) # {}
          /\ StatusRows(sliding_sync_connection_streams, last.returned)
               # StatusRows(sliding_sync_connection_streams, last.position)
       \/ /\ ConfigRows(sliding_sync_connection_room_configs, last.position) # {}
          /\ ConfigRows(sliding_sync_connection_room_configs, last.returned)
               # ConfigRows(sliding_sync_connection_room_configs, last.position)

-----------------------------------------------------------------------------
(* Extremity cleanup: the delete_soft_failed_extremities background update *)
(* (_cleanup_extremities_bg_update, lines 454-643).                        *)

\* The events of room R, in an order in which every event comes after its
\* prev events.
EventIds == {"e1", "e2", "e3", "e4"}

EventRank(event_id) ==
    CASE event_id = "e1" -> 1 [] event_id = "e2" -> 2
      [] event_id = "e3" -> 3 [] event_id = "e4" -> 4

\* Room ids are strings whose order matters; they are held as sequences of
\* characters.
RoomR == <<"a">>

\* The (event_id, prev_event_id) rows event_edges may hold.
DagEdges ==
    { x \in EventIds \X EventIds : EventRank(x[2]) < EventRank(x[1]) }

\* What an event can be: accepted, soft-failed (internal_metadata), rejected
\* (a row in rejections), or an accepted outlier.
EventKinds == {"live", "soft_failed", "rejected", "outlier"}

\* The forward extremities copied into _extremities_to_check at start-up.
Candidates == {"e1", "e2"}

\* Batch sizes the background updater passes to the handler.
BatchSizes == {1, 2}

\* Line 539: soft-failed events are looked up at most 100 at a time.
LookupChunk == 100

EventRow(event_id, kind) ==
    [event_id |-> event_id, room_id |-> RoomR,
     topological_ordering |-> EventRank(event_id),
     stream_ordering |-> EventRank(event_id),
     outlier |-> (kind = "outlier")]

InEvents(event_id) == \E e \in events : e.event_id = event_id

InEventJson(event_id) == \E j \in event_json : j.event_id = event_id

\* events.outlier of the joined row; NULL (no row) is falsy.
Outlier(event_id) == \E e \in events : e.event_id = event_id /\ e.outlier

\* db_to_json(metadata).get("soft_failed"); no metadata is not soft-failed.
SoftFailed(event_id) ==
    \E j \in event_json : j.event_id = event_id /\ j.soft_failed

\* rejections.event_id IS NOT NULL.
Rejected(event_id) == event_id \in rejections

\* A check that takes a rejected event for an accepted one.
SoftFailedOnly(event_id) == SoftFailed(event_id)

\* A check that takes a soft-failed event for an accepted one.
RejectedOnly(event_id) == Rejected(event_id)

SoftFailedOrRejected(event_id) == SoftFailed(event_id) \/ Rejected(event_id)

\* A first pass that skips a successor that is itself in the batch.
CleanupFirstPassSkippingBatch(original_set) ==
    LET rows == { x \in event_edges :
                    /\ x[2] \in original_set
                    /\ x[1] \notin original_set
                    /\ ~ Outlier(x[1]) }
        found == { x[1] : x \in rows }
    IN  [graph |-> rows,
         soft_failed_events_to_lookup |->
             { e \in found : SoftFailed(e) \/ Rejected(e) },
         non_rejected_leaves |->
             { e \in found : ~ (SoftFailed(e) \/ Rejected(e)) }]

\* Lines 497-530: the successors of the batch that are not outliers, as
\* graph edges (event_id, prev_event_id), split into those to look up and
\* the leaves that are neither soft-failed nor rejected.
CleanupFirstPass(original_set) ==
    LET rows == { x \in event_edges :
                    x[2] \in original_set /\ ~ Outlier(x[1]) }
        found == { x[1] : x \in rows }
    IN  [graph |-> rows,
         soft_failed_events_to_lookup |->
             { e \in found : SoftFailedOrRejected(e) },
         non_rejected_leaves |->
             { e \in found : ~ SoftFailedOrRejected(e) }]

\* Lines 538-540: batch[:100] of the events still to look up.
ToCheck(soft_failed_events_to_lookup) ==
    IF Cardinality(soft_failed_events_to_lookup) <= LookupChunk
    THEN soft_failed_events_to_lookup
    ELSE CHOOSE c \in SUBSET soft_failed_events_to_lookup :
            Cardinality(c) = LookupChunk

\* A loop that looks nothing up.
CleanupNoExpand(st) ==
    [st EXCEPT !.soft_failed_events_to_lookup = {}]

\* A loop body that puts an event it meets again back among the events to
\* look up.
CleanupLookupAgain(st, to_check) ==
    LET rows == { x \in event_edges :
                    /\ x[2] \in to_check
                    /\ InEvents(x[1])
                    /\ InEventJson(x[1])
                    /\ ~ Outlier(x[1]) }
        met == { x[1] : x \in rows }
        new == met \ { g[1] : g \in st.graph }
    IN  [graph |-> st.graph \cup rows,
         soft_failed_events_to_lookup |->
             (st.soft_failed_events_to_lookup \ to_check)
             \cup { e \in met : SoftFailedOrRejected(e) },
         non_rejected_leaves |->
             st.non_rejected_leaves
             \cup { e \in new : ~ SoftFailedOrRejected(e) }]

\* Lines 541-570: one pass of the loop, the lookup of the successors of
\* to_check.  An event already in the graph only gains the edge.
CleanupLookup(st, to_check) ==
    LET rows == { x \in event_edges :
                    /\ x[2] \in to_check
                    /\ InEvents(x[1])
                    /\ InEventJson(x[1])
                    /\ ~ Outlier(x[1]) }
        new == { x[1] : x \in rows } \ { g[1] : g \in st.graph }
    IN  [graph |-> st.graph \cup rows,
         soft_failed_events_to_lookup |->
             (st.soft_failed_events_to_lookup \ to_check)
             \cup { e \in new : SoftFailedOrRejected(e) },
         non_rejected_leaves |->
             st.non_rejected_leaves
             \cup { e \in new : ~ SoftFailedOrRejected(e) }]

\* Lines 535-570: the loop that follows soft-failed and rejected events to
\* their non-outlier successors until nothing is left to look up.
RECURSIVE CleanupExpand(_)
CleanupExpand(st) ==
    IF st.soft_failed_events_to_lookup = {} THEN st
    ELSE CleanupExpand(CleanupLookup(st, ToCheck(st.soft_failed_events_to_lookup)))

\* Lines 575-580: every event reached from the leaves by the recorded
\* edges.
RECURSIVE CleanupAncestors(_, _, _)
CleanupAncestors(graph, non_rejected_leaves, to_delete) ==
    IF non_rejected_leaves = {} THEN to_delete
    ELSE LET prev_event_ids ==
                 { g[2] : g \in { x \in graph : x[1] \in non_rejected_leaves } }
         IN  CleanupAncestors(graph, prev_event_ids \ to_delete,
                              to_delete \cup prev_event_ids)

\* Lines 497-582: to_delete after intersection_update(original_set).
ToDelete(original_set) ==
    LET st == CleanupExpand(CleanupFirstPass(original_set))
    IN  CleanupAncestors(st.graph, st.non_rejected_leaves, {})
            \cap original_set

\* Lines 598-615: the rooms whose latest-events cache entry is invalidated.
RoomsToInvalidate(deleted, to_delete) ==
    IF deleted = 0 THEN {}
    ELSE { e.room_id : e \in { x \in events : x.event_id \in to_delete } }

\* A select that returns no row.
NoCandidates(table, batch_size) == {{}}

\* SELECT ... FROM _extremities_to_check LIMIT ?: any batch_size rows, or
\* all of them when there are fewer.
LimitedSets(table, batch_size) ==
    { c \in SUBSET table :
        Cardinality(c) = IF Cardinality(table) < batch_size
                         THEN Cardinality(table) ELSE batch_size }

CleanupRound(batch_size, original_set, to_delete) ==
    [batch_size |-> batch_size, original_set |-> original_set,
     to_delete |-> to_delete]

\* Lines 477-634, up to the call that ends the job: one invocation of the
\* handler runs _cleanup_extremities_bg_update_txn on a batch; when the
\* batch is empty it goes on to end the job.
cleanup_extremities_bg_update(batch_size, original_set) ==
    /\ cleanup_job.pc = "idle"
    /\ ~ cleanup_job.ended
    /\ original_set \in LimitedSets(extremities_to_check, batch_size)
    /\ LET to_delete == ToDelete(original_set)
           deleted == Cardinality(event_forward_extremities \cap to_delete)
       IN  /\ event_forward_extremities' = event_forward_extremities \ to_delete
           /\ latest_event_ids_invalidated' =
                latest_event_ids_invalidated
                \cup RoomsToInvalidate(deleted, to_delete)
           /\ extremities_to_check' = extremities_to_check \ original_set
           /\ cleanup_history' =
                [cleanup_history EXCEPT
                   !.round = CleanupRound(batch_size, original_set, to_delete),
                   !.rounds = @ + 1]
    /\ cleanup_job' =
         IF Cardinality(original_set) = 0
         THEN [cleanup_job EXCEPT !.pc = "end"]
         ELSE cleanup_job
    /\ UNCHANGED <<events, event_edges, event_json, rejections>>

\* Lines 631-634: _end_background_update.
cleanup_end_background_update ==
    /\ cleanup_job.pc = "end"
    /\ cleanup_job' = [cleanup_job EXCEPT !.pc = "drop", !.ended = TRUE]
    /\ UNCHANGED <<events, event_edges, event_json, rejections, event_forward_extremities, extremities_to_check, latest_event_ids_invalidated, cleanup_history>>

\* Lines 636-641: DROP TABLE _extremities_to_check.
cleanup_drop_table ==
    /\ cleanup_job.pc = "drop"
    /\ cleanup_job' = [cleanup_job EXCEPT !.pc = "idle", !.dropped = TRUE]
    /\ extremities_to_check' = {}
    /\ UNCHANGED <<events, event_edges, event_json, rejections, event_forward_extremities, latest_event_ids_invalidated, cleanup_history>>

NoRound == CleanupRound(0, {}, {})

CleanupInitOver(edge_rows) ==
    /\ \E edges \in SUBSET edge_rows, kinds \in [EventIds \ {"e1"} -> EventKinds], to_check \in SUBSET Candidates :
          LET kind(e) == IF e = "e1" THEN "live" ELSE kinds[e]
          IN  /\ events = { EventRow(e, kind(e)) : e \in EventIds }
              /\ event_edges = edges
              /\ event_json =
                   { [event_id |-> e, soft_failed |-> (kind(e) = "soft_failed")] :
                       e \in EventIds }
              /\ rejections = { e \in EventIds : kind(e) = "rejected" }
              /\ extremities_to_check = to_check
              /\ cleanup_history =
                   [extremities |-> Candidates, to_check |-> to_check,
                    round |-> NoRound, rounds |-> 0]
    /\ event_forward_extremities = Candidates
    /\ latest_event_ids_invalidated = {}
    /\ cleanup_job = [pc |-> "idle", ended |-> FALSE, dropped |-> FALSE, crashes |-> 0]
    /\ SyncAtRest
    /\ ChainAtRest
    /\ BackfillAtRest

CleanupInit == CleanupInitOver(DagEdges)

\* The graphs whose edges are among three: e3 after e1, e3 after e2 and e4
\* after e3.
CleanupForkInit ==
    CleanupInitOver({ <<"e3", "e1">>, <<"e3", "e2">>, <<"e4", "e3">> })

CleanupOthersAtRest == UNCHANGED <<sync_vars, chain_only_vars, backfill_only_vars>>

CleanupBatch ==
    \E batch_size \in BatchSizes :
        \E original_set \in LimitedSets(extremities_to_check, batch_size) :
            cleanup_extremities_bg_update(batch_size, original_set)

CleanupNext ==
    \/ CleanupBatch /\ CleanupOthersAtRest
    \/ cleanup_end_background_update /\ CleanupOthersAtRest
    \/ cleanup_drop_table /\ CleanupOthersAtRest

CleanupSpec == CleanupInit /\ [][CleanupNext]_cleanup_vars

\* The background updater keeps invoking the handler of a job that has not
\* ended, and an invocation runs to its return.
CleanupLiveSpec ==
    CleanupForkInit /\ [][CleanupNext]_cleanup_vars /\ WF_cleanup_vars(CleanupNext)

-----------------------------------------------------------------------------
(* Properties of the extremity cleanup.                                    *)

\* An event that is neither soft-failed nor rejected.
Accepted(event_id) == ~ SoftFailed(event_id) /\ ~ Rejected(event_id)

\* The events reached from a set of events by successor edges through the
\* events of `through`.
RECURSIVE ReachedThrough(_, _, _)
ReachedThrough(frontier, seen, through) ==
    LET next == { x[1] : x \in { y \in event_edges :
                                   y[2] \in frontier /\ y[1] \in through } }
                \ seen
    IN  IF next = {} THEN seen
        ELSE ReachedThrough(next, seen \cup next, through)

\* The descendants of an event.
Descendants(event_id) == ReachedThrough({event_id}, {}, EventIds)

\* The descendants of an event reached without passing through an outlier.
DescendantsInDag(event_id) ==
    ReachedThrough({event_id}, {}, { e \in EventIds : ~ Outlier(e) })

\* The step is a round of the cleanup.
IsCleanupRound == cleanup_history'.rounds # cleanup_history.rounds

\* C11: in every round a forward extremity is deleted only if one of its
\* descendants is neither soft-failed nor rejected; an extremity with no
\* successor, or whose descendants are all soft-failed or rejected, stays.
ExtremityDeletedOnlyWithAcceptedDescendant ==
    [][ \A e \in event_forward_extremities :
           e \notin event_forward_extremities'
               => \E d \in Descendants(e) : Accepted(d)
      ]_cleanup_vars

\* Witness of C11: a round has deleted one extremity and kept another that
\* has successors.
RoundDeletedOneAndKeptOne ==
    /\ cleanup_history.round.to_delete # {}
    /\ \E e \in cleanup_history.round.original_set \ cleanup_history.round.to_delete :
          /\ e \in event_forward_extremities
          /\ Descendants(e) # {}

\* C12 (as claimed): a candidate of a round is deleted if and only if some
\* event that is neither soft-failed nor rejected is reachable from it by
\* successor edges, outliers included.
ExtremityDeletedIffAcceptedDescendant ==
    [][ IsCleanupRound =>
          \A e \in cleanup_history'.round.original_set :
             (e \in event_forward_extremities /\ e \notin event_forward_extremities')
                <=> \E d \in Descendants(e) : Accepted(d)
      ]_cleanup_vars

\* C12 (amended): a candidate of a round is deleted if and only if some
\* event that is neither soft-failed nor rejected nor an outlier is
\* reachable from it by successor edges without passing through an
\* outlier; chains of soft-failed or rejected events of any length are
\* followed.
ExtremityDeletedIffAcceptedDescendantInDag ==
    [][ IsCleanupRound =>
          \A e \in cleanup_history'.round.original_set :
             (e \in event_forward_extremities /\ e \notin event_forward_extremities')
                <=> \E d \in DescendantsInDag(e) : Accepted(d)
      ]_cleanup_vars

\* Witness of C12: a round has deleted an extremity none of whose
\* successors is accepted, and has kept one that has an accepted outlier
\* as a successor.
RoundFollowedChainAndIgnoredOutlier ==
    /\ \E e \in cleanup_history.round.to_delete :
          \A x \in event_edges : x[2] = e => ~ Accepted(x[1])
    /\ \E e \in cleanup_history.round.original_set \ cleanup_history.round.to_delete :
          \E x \in event_edges : x[2] = e /\ Accepted(x[1]) /\ Outlier(x[1])

\* Room R has forward extremities e1 and e2, both to be checked; the only
\* edge is from the soft-failed e3 to e1.
ExtremityScenario ==
    /\ cleanup_history.extremities = {"e1", "e2"}
    /\ cleanup_history.to_check = {"e1", "e2"}
    /\ event_edges = { <<"e3", "e1">> }
    /\ SoftFailed("e3")

\* C13 (as claimed): in the scenario, when the job has ended e1 has been
\* deleted from the forward extremities and e2 is retained.
ScenarioDeletesFirstExtremity ==
    ExtremityScenario /\ cleanup_job.ended
        => /\ "e1" \notin event_forward_extremities
           /\ "e2" \in event_forward_extremities

\* C13 (amended): in the scenario, when the job has ended both e1 and e2
\* are still forward extremities: e3 is soft-failed and has no successor,
\* so no accepted event descends from e1.
ScenarioRetainsBothExtremities ==
    ExtremityScenario /\ cleanup_job.ended
        => event_forward_extremities = {"e1", "e2"}

\* Witness of C13: the job has run to completion on the scenario.
ScenarioCleanupCompleted ==
    /\ ExtremityScenario
    /\ cleanup_job.ended
    /\ cleanup_job.dropped

\* C14: every round removes from the scratch table exactly the candidates
\* it fetched, deleted or not, so a round that finds the table non-empty
\* shrinks it; the job is ended only after a round that fetched nothing,
\* never while the table holds a candidate; and eventually the job is
\* ended and the table dropped.
ScratchShrinksUntilJobEnds ==
    /\ [][ IsCleanupRound =>
             /\ extremities_to_check' =
                  extremities_to_check \ cleanup_history'.round.original_set
             /\ cleanup_history'.round.original_set \subseteq extremities_to_check
             /\ extremities_to_check # {} =>
                  Cardinality(extremities_to_check')
                      < Cardinality(extremities_to_check)
         ]_cleanup_vars
    /\ [][ cleanup_job'.ended /\ ~ cleanup_job.ended =>
             /\ cleanup_history.rounds > 0
             /\ cleanup_history.round.original_set = {}
         ]_cleanup_vars
    /\ [] ( cleanup_job.ended \/ cleanup_job.pc # "idle"
               => extremities_to_check = {} )
    /\ [] ( cleanup_job.dropped => cleanup_job.ended )
    /\ <>[] ( cleanup_job.ended /\ cleanup_job.dropped )

\* Witness of C14: the table has been dropped after two rounds that each
\* removed a candidate, one of them kept as a forward extremity, and a
\* round that found nothing.
ScratchDroppedAfterThreeRounds ==
    /\ cleanup_job.dropped
    /\ cleanup_history.rounds = 3
    /\ cleanup_history.to_check \cap event_forward_extremities # {}

\* C15: whatever the batch sizes of the rounds, the forward extremities
\* left when the job ends are those a single round over the whole scratch
\* table leaves.
BatchSizeIndependence ==
    cleanup_job.ended =>
        event_forward_extremities =
            cleanup_history.extremities \ ToDelete(cleanup_history.to_check)

\* Witness of C15: the job has ended after rounds of batch size 1 and has
\* deleted an extremity.
EndedAfterSingleCandidateRounds ==
    /\ cleanup_job.ended
    /\ cleanup_history.rounds = 3
    /\ event_forward_extremities # cleanup_history.extremities

-----------------------------------------------------------------------------
(* Chain-cover backfill: the chain_cover background update                 *)
(* (_chain_cover_index and _calculate_chain_cover_txn, lines 912-1113),    *)
(* running while live ingestion persists events.                           *)

\* Room ids; "" is the room id of a job that has no progress yet.
NoRoomId == <<>>
RoomA == <<"a">>
RoomB == <<"b">>
ChainRooms == {RoomA, RoomB}

ChainEvent(event_id, room_id, topological_ordering, stream_ordering) ==
    [event_id |-> event_id, room_id |-> room_id,
     topological_ordering |-> topological_ordering,
     stream_ordering |-> stream_ordering, outlier |-> FALSE]

\* State events that may be stored when the job starts.  a1 and a2 share
\* room and depth; a3 is deeper than a2 with a smaller (backfilled) stream
\* ordering; b1 is in the next room at a smaller depth than a3.
StoredStateEvents ==
    { ChainEvent("a1", RoomA, 1, 1), ChainEvent("a2", RoomA, 1, 2),
      ChainEvent("a3", RoomA, 2, -1), ChainEvent("b1", RoomB, 1, 3) }

\* An event that is not a state event.
MessageEvent == ChainEvent("b0", RoomB, 2, 4)

\* State events live ingestion may persist while the job runs: one below
\* every stored event of room A, one above them.
IngestedStateEvents ==
    { ChainEvent("n1", RoomA, 0, 5), ChainEvent("n2", RoomA, 3, 6) }

\* Batch sizes the background updater passes to the handler.
ChainBatchSizes == {1, 2, 3}

\* batch_size=None of the single-room call: no LIMIT.
NoBatchLimit == 0

\* progress.get(key, default).
ProgressGet(progress, key, default) ==
    IF key \in DOMAIN progress THEN progress[key] ELSE default

ChainRowKey(e) == <<e.room_id, e.topological_ordering, e.stream_ordering>>

\* (room_id, depth, stream) of a < that of b, as a tuple.
TupleLess(a, b) ==
    \/ StrLess(a[1], b[1])
    \/ a[1] = b[1] /\ a[2] < b[2]
    \/ a[1] = b[1] /\ a[2] = b[2] /\ a[3] < b[3]

\* Lines 1030-1037: state events with no row in event_auth_chains or in
\* event_auth_chain_to_calculate, after the given tuple, of the given room
\* only in a single-room call.
SelectedRows(last_room_id, last_depth, last_stream, single_room) ==
    { e \in events :
        /\ e.event_id \in state_events
        /\ e.event_id \notin event_auth_chains
        /\ e.event_id \notin event_auth_chain_to_calculate
        /\ TupleLess(<<last_room_id, last_depth, last_stream>>, ChainRowKey(e))
        /\ single_room => e.room_id = last_room_id }

\* Rows ordered by topological_ordering and stream_ordering alone.
RECURSIVE OrderedByDepthAndStream(_)
OrderedByDepthAndStream(S) ==
    IF S = {} THEN <<>>
    ELSE LET first == CHOOSE e \in S :
                 \A o \in S \ {e} :
                    TupleLess(<<NoRoomId, e.topological_ordering, e.stream_ordering>>,
                              <<NoRoomId, o.topological_ordering, o.stream_ordering>>)
         IN  <<first>> \o OrderedByDepthAndStream(S \ {first})

\* Line 1038: ORDER BY events.room_id, topological_ordering,
\* stream_ordering.
RECURSIVE OrderedRows(_)
OrderedRows(S) ==
    IF S = {} THEN <<>>
    ELSE LET first == CHOOSE e \in S :
                 \A o \in S \ {e} : TupleLess(ChainRowKey(e), ChainRowKey(o))
         IN  <<first>> \o OrderedRows(S \ {first})

\* Lines 1039-1047: LIMIT ?, when batch_size is not None.
LimitRows(rows, batch_size) ==
    IF batch_size = NoBatchLimit \/ Len(rows) <= batch_size
    THEN rows
    ELSE SubSeq(rows, 1, batch_size)

\* d[key] = value on a dict held as a sequence of (key, value) in insertion
\* order.
DictSet(d, key, value) ==
    IF \E i \in 1..Len(d) : d[i][1] = key
    THEN [i \in 1..Len(d) |-> IF d[i][1] = key THEN <<key, value>> ELSE d[i]]
    ELSE Append(d, <<key, value>>)

DictKeys(d) == { d[i][1] : i \in 1..Len(d) }

\* Lines 1069-1071: the last (depth, stream) of every room of the rows
\* other than the room of the last row.
RECURSIVE FinishedRoomsOfRows(_, _, _)
FinishedRoomsOfRows(rows, new_last_room_id, finished_rooms) ==
    IF rows = <<>> THEN finished_rooms
    ELSE FinishedRoomsOfRows(
            Tail(rows), new_last_room_id,
            IF Head(rows).room_id # new_last_room_id
            THEN DictSet(finished_rooms, Head(rows).room_id,
                         <<Head(rows).topological_ordering,
                           Head(rows).stream_ordering>>)
            ELSE finished_rooms)

\* Every room of the rows counts as finished, the room of the last row too.
FinishedRoomsWithLastRoom(rows, last_room_id, last_depth, last_stream, new_last_room_id) ==
    LET finished_rooms == FinishedRoomsOfRows(rows, NoRoomId, <<>>)
    IN  IF last_room_id \notin DictKeys(finished_rooms)
        THEN DictSet(finished_rooms, last_room_id, <<last_depth, last_stream>>)
        ELSE finished_rooms

\* The rooms of the rows alone, without the room passed in.
FinishedRoomsOfRowsOnly(rows, last_room_id, last_depth, last_stream, new_last_room_id) ==
    FinishedRoomsOfRows(rows, new_last_room_id, <<>>)

\* Lines 1069-1073: finished_rooms, to which the room passed in is added
\* when the rows have left it.
FinishedRooms(rows, last_room_id, last_depth, last_stream, new_last_room_id) ==
    LET finished_rooms == FinishedRoomsOfRows(rows, new_last_room_id, <<>>)
    IN  IF /\ last_room_id \notin DictKeys(finished_rooms)
           /\ last_room_id # new_last_room_id
        THEN DictSet(finished_rooms, last_room_id, <<last_depth, last_stream>>)
        ELSE finished_rooms

\* Lines 1007-1113: the rows the transaction hands to the indexer and the
\* _CalculateChainCover it returns.
CalculateChainCover(last_room_id, last_depth, last_stream, batch_size, single_room) ==
    LET rows == LimitRows(
                  OrderedRows(SelectedRows(last_room_id, last_depth,
                                           last_stream, single_room)),
                  batch_size)
        new_last_depth ==
            IF rows # <<>> THEN rows[Len(rows)].topological_ordering
            ELSE last_depth
        new_last_stream ==
            IF rows # <<>> THEN rows[Len(rows)].stream_ordering
            ELSE last_stream
        new_last_room_id ==
            IF rows # <<>> THEN rows[Len(rows)].room_id ELSE NoRoomId
    IN  [rows |-> rows,
         room_id |-> new_last_room_id,
         depth |-> new_last_depth,
         stream |-> new_last_stream,
         processed_count |-> Len(rows),
         finished_room_map |->
             FinishedRooms(rows, last_room_id, last_depth, last_stream,
                           new_last_room_id)]

\* Lines 1098-1105: PersistEventsStore._add_chain_cover_index gives every
\* event handed to it a chain-cover entry, in the transaction of the batch.
AddChainCoverIndex(rows) ==
    event_auth_chains \cup { rows[i].event_id : i \in 1..Len(rows) }

\* The update of rooms changes no row.
FlagNoRoom(room_id) == rooms

\* Lines 949-954: UPDATE rooms SET has_auth_chain_index = true WHERE
\* room_id = ?.
FlagRoom(room_id) ==
    IF room_id \in DOMAIN rooms
    THEN [rooms EXCEPT ![room_id] = TRUE]
    ELSE rooms

IndexerCall(rows, single_room) ==
    [event_ids |-> [i \in 1..Len(rows) |-> rows[i].event_id],
     single_room |-> single_room]

ChainBatch(last_room_id, result) ==
    [last_room_id |-> last_room_id,
     row_rooms |-> { result.rows[i].room_id : i \in 1..Len(result.rows) },
     new_last_room_id |-> result.room_id,
     finished_rooms |-> DictKeys(result.finished_room_map)]

ChainFrame == UNCHANGED <<cleanup_only_vars, sync_vars, backfill_only_vars>>

\* Lines 917-939: an invocation of the handler reads the progress and runs
\* the batch transaction.
chain_cover_index(batch_size) ==
    /\ chain_cover_job.pc = "idle"
    /\ ~ chain_cover_job.ended
    /\ LET current_room_id ==
               ProgressGet(chain_cover_progress, "current_room_id", NoRoomId)
           last_depth == ProgressGet(chain_cover_progress, "last_depth", -1)
           last_stream == ProgressGet(chain_cover_progress, "last_stream", -1)
           result == CalculateChainCover(current_room_id, last_depth,
                                         last_stream, batch_size, FALSE)
       IN  /\ event_auth_chains' = AddChainCoverIndex(result.rows)
           /\ chain_cover_job' =
                [chain_cover_job EXCEPT
                   !.pc = IF result.finished_room_map = <<>>
                          THEN "finish" ELSE "flag",
                   !.finished = (result.processed_count = 0),
                   !.total_rows_processed = result.processed_count,
                   !.current_room_id = result.room_id,
                   !.last_depth = result.depth,
                   !.last_stream = result.stream,
                   !.finished_room_map = result.finished_room_map]
           /\ chain_cover_history' =
                [chain_cover_history EXCEPT
                   !.indexer_calls = Append(@, IndexerCall(result.rows, FALSE)),
                   !.batch = ChainBatch(current_room_id, result),
                   !.batches = @ + 1,
                   !.flagged = {},
                   !.rescanned = {}]
    /\ UNCHANGED <<events, state_events, event_auth_chain_to_calculate, rooms, chain_cover_progress>>

\* Lines 941-954: the flag of the next finished room is set.
chain_cover_flag_room ==
    /\ chain_cover_job.pc = "flag"
    /\ LET room_id == Head(chain_cover_job.finished_room_map)[1]
       IN  /\ rooms' = FlagRoom(room_id)
           /\ chain_cover_history' =
                [chain_cover_history EXCEPT !.flagged = @ \cup {room_id}]
    /\ chain_cover_job' = [chain_cover_job EXCEPT !.pc = "rescan"]
    /\ UNCHANGED <<events, state_events, event_auth_chains, event_auth_chain_to_calculate, chain_cover_progress>>

\* Lines 956-968: that room is scanned again, from its last (depth, stream)
\* and with no limit.
chain_cover_rescan ==
    /\ chain_cover_job.pc = "rescan"
    /\ LET room_id == Head(chain_cover_job.finished_room_map)[1]
           depth == Head(chain_cover_job.finished_room_map)[2][1]
           stream == Head(chain_cover_job.finished_room_map)[2][2]
           result == CalculateChainCover(room_id, depth, stream,
                                         NoBatchLimit, TRUE)
           rest == Tail(chain_cover_job.finished_room_map)
       IN  /\ event_auth_chains' = AddChainCoverIndex(result.rows)
           /\ chain_cover_job' =
                [chain_cover_job EXCEPT
                   !.pc = IF rest = <<>> THEN "finish" ELSE "flag",
                   !.total_rows_processed = @ + result.processed_count,
                   !.finished_room_map = rest]
           /\ chain_cover_history' =
                [chain_cover_history EXCEPT
                   !.indexer_calls = Append(@, IndexerCall(result.rows, TRUE)),
                   !.rescanned = @ \cup {room_id}]
    /\ UNCHANGED <<events, state_events, event_auth_chain_to_calculate, rooms, chain_cover_progress>>

\* Lines 970-983: the job is ended when the batch was empty; otherwise the
\* progress is written.  The invocation returns.
chain_cover_finish ==
    /\ chain_cover_job.pc = "finish"
    /\ IF chain_cover_job.finished
       THEN /\ chain_cover_job' =
                 [chain_cover_job EXCEPT !.pc = "idle", !.ended = TRUE]
            /\ UNCHANGED chain_cover_progress
       ELSE /\ chain_cover_job' = [chain_cover_job EXCEPT !.pc = "idle"]
            /\ chain_cover_progress' =
                 [current_room_id |-> chain_cover_job.current_room_id,
                  last_depth |-> chain_cover_job.last_depth,
                  last_stream |-> chain_cover_job.last_stream]
    /\ UNCHANGED <<events, state_events, event_auth_chains, event_auth_chain_to_calculate, rooms, chain_cover_history>>

\* The rooms the running invocation found finished and has not flagged yet.
RoomsAwaitingFlag ==
    IF chain_cover_job.pc = "flag"
    THEN DictKeys(chain_cover_job.finished_room_map)
    ELSE IF chain_cover_job.pc = "rescan"
    THEN DictKeys(Tail(chain_cover_job.finished_room_map))
    ELSE {}

\* Live ingestion persists a state event.  It computes the chain cover of
\* the event itself when the room has its has_auth_chain_index flag.
persist_state_event(e) ==
    /\ e \notin events
    /\ events' = events \cup {e}
    /\ state_events' = state_events \cup {e.event_id}
    /\ event_auth_chains' =
         IF rooms[e.room_id] THEN event_auth_chains \cup {e.event_id}
         ELSE event_auth_chains
    /\ chain_cover_history' =
         [chain_cover_history EXCEPT
            !.ingested = @ \cup {e.event_id},
            !.raced = IF e.room_id \in RoomsAwaitingFlag
                      THEN @ \cup {e.event_id} ELSE @]
    /\ UNCHANGED <<event_auth_chain_to_calculate, rooms, chain_cover_progress, chain_cover_job>>

NoBatch ==
    [last_room_id |-> NoRoomId, row_rooms |-> {},
     new_last_room_id |-> NoRoomId, finished_rooms |-> {}]

ChainInit ==
    /\ \E stored \in SUBSET StoredStateEvents :
          \E indexed \in SUBSET ({ e.event_id : e \in stored } \cap {"a1"}) :
             /\ events = stored \cup {MessageEvent}
             /\ state_events = { e.event_id : e \in stored }
             /\ event_auth_chains = indexed
             /\ chain_cover_history =
                  [unindexed |-> { e.event_id : e \in stored } \ indexed,
                   ingested |-> {}, raced |-> {}, indexer_calls |-> <<>>,
                   batch |-> NoBatch, batches |-> 0,
                   flagged |-> {}, rescanned |-> {}, crashes |-> 0]
    /\ event_auth_chain_to_calculate = {}
    /\ rooms = [room_id \in ChainRooms |-> FALSE]
    /\ chain_cover_progress = EmptyMap
    /\ chain_cover_job =
         [pc |-> "idle", ended |-> FALSE, finished |-> FALSE,
          total_rows_processed |-> 0, current_room_id |-> NoRoomId,
          last_depth |-> -1, last_stream |-> -1, finished_room_map |-> <<>>]
    /\ CleanupAtRest
    /\ SyncAtRest
    /\ BackfillAtRest

ChainCoverBatch == \E batch_size \in ChainBatchSizes : chain_cover_index(batch_size)

Ingest == \E e \in IngestedStateEvents : persist_state_event(e)

ChainNext ==
    \/ ChainCoverBatch /\ ChainFrame
    \/ chain_cover_flag_room /\ ChainFrame
    \/ chain_cover_rescan /\ ChainFrame
    \/ chain_cover_finish /\ ChainFrame
    \/ Ingest /\ ChainFrame

ChainSpec == ChainInit /\ [][ChainNext]_chain_vars

-----------------------------------------------------------------------------
(* Properties of the chain-cover backfill.                                 *)

StateEventsOfRoom(room_id) ==
    { e \in events : e.room_id = room_id /\ e.event_id \in state_events }

HasChainCover(e) == e.event_id \in event_auth_chains

\* C16, as claimed: in every reachable state, live ingestion included, a
\* room whose has_auth_chain_index flag is true has a chain-cover entry for
\* every non-outlier state event stored for it.
FlagOnlyWhenEveryStateEventIndexed ==
    \A room_id \in ChainRooms :
       rooms[room_id] =>
          \A e \in StateEventsOfRoom(room_id) : ~ e.outlier => HasChainCover(e)

\* C16, amended: a room whose has_auth_chain_index flag is true has a
\* chain-cover entry for every non-outlier state event that was stored when
\* the job started; a state event without an entry in a flagged room is one
\* that live ingestion persisted while the job ran.
FlagOnlyWhenEveryStoredStateEventIndexed ==
    \A room_id \in ChainRooms :
       rooms[room_id] =>
          \A e \in StateEventsOfRoom(room_id) :
             ~ e.outlier =>
                \/ HasChainCover(e)
                \/ e.event_id \in chain_cover_history.ingested

\* The flag of room A is true, the job has indexed stored events of the
\* room, and an ingested state event of the room has no entry.
FlaggedRoomWithUnindexedIngestedEvent ==
    /\ rooms[RoomA]
    /\ \E e \in StateEventsOfRoom(RoomA) :
          /\ e.event_id \in chain_cover_history.unindexed
          /\ HasChainCover(e)
    /\ \E e \in StateEventsOfRoom(RoomA) :
          /\ e.event_id \in chain_cover_history.ingested
          /\ ~ HasChainCover(e)

FlagWrittenNow(room_id) == rooms'[room_id] /\ ~ rooms[room_id]

RescannedNow(room_id) ==
    /\ room_id \in chain_cover_history'.rescanned
    /\ room_id \notin chain_cover_history.rescanned

InvocationReturns == chain_cover_job.pc # "idle" /\ chain_cover_job'.pc = "idle"

\* C17, as claimed: for every finished room, the write that sets
\* has_auth_chain_index to true happens only after the single-room re-scan
\* of that room has completed.
FlagWrittenAfterRescan ==
    [][\A room_id \in ChainRooms :
          FlagWrittenNow(room_id) =>
             room_id \in chain_cover_history.rescanned]_chain_vars

\* C17, amended: for every finished room, the write that sets
\* has_auth_chain_index to true happens before the single-room re-scan of
\* that room, which is the handler's next step; the re-scan of a room runs
\* with the flag of the room already true, and the invocation returns only
\* when every finished room of its batch was flagged and re-scanned.
FlagWrittenBeforeRescan ==
    [][/\ \A room_id \in ChainRooms :
             FlagWrittenNow(room_id) =>
                /\ room_id \notin chain_cover_history.rescanned
                /\ chain_cover_job'.pc = "rescan"
                /\ Head(chain_cover_job'.finished_room_map)[1] = room_id
       /\ \A room_id \in ChainRooms : RescannedNow(room_id) => rooms[room_id]
       /\ InvocationReturns =>
             /\ chain_cover_history.flagged = chain_cover_history.batch.finished_rooms
             /\ chain_cover_history.rescanned = chain_cover_history.batch.finished_rooms
      ]_chain_vars

\* The flag of room A is written and the re-scan of room A has not run.
FlagWrittenRescanPending ==
    /\ chain_cover_job.pc = "rescan"
    /\ Head(chain_cover_job.finished_room_map)[1] = RoomA
    /\ rooms[RoomA]
    /\ RoomA \notin chain_cover_history.rescanned

\* C18: every state event that live ingestion persisted in a finished room
\* between the batch transaction and the write of the room's flag, whatever
\* its depth and stream ordering, has a chain-cover entry when the handler
\* invocation has returned.
RescanIndexesEveryRacedEvent ==
    chain_cover_job.pc = "idle" =>
       \A e \in events :
          e.event_id \in chain_cover_history.raced => HasChainCover(e)

\* The event ids handed to the indexer so far, in the order of the calls.
RECURSIVE HandedEvents(_)
HandedEvents(indexer_calls) ==
    IF indexer_calls = <<>> THEN <<>>
    ELSE Head(indexer_calls).event_ids \o HandedEvents(Tail(indexer_calls))

EventOfId(event_id) == CHOOSE e \in events : e.event_id = event_id

\* The (room, depth, stream) the next batch starts from.
Checkpoint ==
    <<ProgressGet(chain_cover_progress, "current_room_id", NoRoomId),
      ProgressGet(chain_cover_progress, "last_depth", -1),
      ProgressGet(chain_cover_progress, "last_stream", -1)>>

\* C19: with no concurrent event insertion, the events handed to the
\* indexer are state events that had no entry at the start, in strictly
\* increasing (room id, depth, stream) order, so none is handed twice;
\* between invocations every state event still without an entry lies after
\* the checkpoint, also when it shares the room id or the (room id, depth)
\* with it; and when the job has ended every state event that had no entry
\* at the start was handed to the indexer and none is left without entry.
ChainCoverPagination ==
    chain_cover_history.ingested = {} =>
       LET handed == HandedEvents(chain_cover_history.indexer_calls)
           handed_ids == { handed[i] : i \in 1..Len(handed) }
       IN  /\ \A i, j \in 1..Len(handed) :
                 i < j => TupleLess(ChainRowKey(EventOfId(handed[i])),
                                    ChainRowKey(EventOfId(handed[j])))
           /\ handed_ids \subseteq chain_cover_history.unindexed
           /\ chain_cover_job.pc = "idle" /\ ~ chain_cover_job.ended =>
                 \A e \in events :
                    e.event_id \in state_events /\ ~ HasChainCover(e) =>
                       TupleLess(Checkpoint, ChainRowKey(e))
           /\ chain_cover_job.ended =>
                 /\ handed_ids = chain_cover_history.unindexed
                 /\ \A e \in events :
                       e.event_id \in state_events => HasChainCover(e)

\* The job has ended after five batches of one row, the last one empty,
\* over four state events without entry and with no event persisted
\* meanwhile.
EndedAfterSingleRowBatches ==
    /\ chain_cover_job.ended
    /\ chain_cover_history.ingested = {}
    /\ chain_cover_history.unindexed = {"a1", "a2", "a3", "b1"}
    /\ chain_cover_history.batches = 5

\* A step that runs the batch transaction of an invocation.
BatchRunsNow == chain_cover_history'.batches # chain_cover_history.batches

\* Every room in which the job indexed an event has its flag.
IndexedRoomsFlagged ==
    LET handed == HandedEvents(chain_cover_history.indexer_calls)
    IN  \A i \in 1..Len(handed) : rooms[EventOfId(handed[i]).room_id]

\* The room of the last row of the batch is not flagged by the invocation
\* that ran the batch.
LastRoomNotFlaggedInBatch ==
    \A room_id \in ChainRooms :
       FlagWrittenNow(room_id) =>
          room_id # chain_cover_history.batch.new_last_room_id

\* C20, as claimed: a room is reported as finished exactly when a batch that
\* starts from a checkpoint in that room returns rows whose last row is in
\* another room, or no rows; every room in which the job indexed an event
\* is flagged when the job has ended; the room of the last row of a batch
\* is never flagged in that batch.
FinishedExactlyWhenBatchLeavesCheckpointRoom ==
    /\ [][BatchRunsNow =>
            \A room_id \in ChainRooms :
               room_id \in chain_cover_history'.batch.finished_rooms <=>
                  /\ chain_cover_history'.batch.last_room_id = room_id
                  /\ chain_cover_history'.batch.new_last_room_id # room_id
         ]_chain_vars
    /\ [](chain_cover_job.ended => IndexedRoomsFlagged)
    /\ [][LastRoomNotFlaggedInBatch]_chain_vars

\* C20, amended: a room is reported as finished by a batch exactly when it
\* is the room of the checkpoint the batch starts from or the room of one
\* of its rows, and is not the room of its last row; every room in which
\* the job indexed an event is flagged when the job has ended; the room of
\* the last row of a batch is never flagged in that batch.
FinishedExactlyWhenBatchLeavesRoom ==
    /\ [][BatchRunsNow =>
            \A room_id \in ChainRooms :
               room_id \in chain_cover_history'.batch.finished_rooms <=>
                  /\ \/ chain_cover_history'.batch.last_room_id = room_id
                     \/ room_id \in chain_cover_history'.batch.row_rooms
                  /\ chain_cover_history'.batch.new_last_room_id # room_id
         ]_chain_vars
    /\ [](chain_cover_job.ended => IndexedRoomsFlagged)
    /\ [][LastRoomNotFlaggedInBatch]_chain_vars

\* The job has ended after two batches, the first with rows of room A
\* followed by rows of room B, and both rooms are flagged.
BothRoomsFlaggedAfterTwoBatches ==
    /\ chain_cover_job.ended
    /\ chain_cover_history.batches = 2
    /\ rooms[RoomA]
    /\ rooms[RoomB]

-----------------------------------------------------------------------------
(* Purge of the chain cover: the purged_chain_cover background update      *)
(* (_purged_chain_cover_index, lines 1115-1187).  Here the rows of         *)
(* event_auth_chains carry their chain id and sequence number.             *)

purge_vars == <<events, event_auth_chains, purge_only_vars>>

\* Event ids, in increasing order "a" < "ab" < "b" < "m".
PurgeEventIds == {<<"a">>, <<"a", "b">>, <<"b">>, <<"m">>}

ChainEntry(event_id, chain_id, sequence_number) ==
    [event_id |-> event_id, chain_id |-> chain_id,
     sequence_number |-> sequence_number]

\* The rows event_auth_chains may hold when the job starts.
ChainEntries ==
    { ChainEntry(<<"a">>, 1, 1), ChainEntry(<<"a", "b">>, 1, 2),
      ChainEntry(<<"b">>, 2, 1), ChainEntry(<<"m">>, 2, 2) }

ChainLink(origin_chain_id, origin_sequence_number, target_chain_id, target_sequence_number) ==
    [origin_chain_id |-> origin_chain_id,
     origin_sequence_number |-> origin_sequence_number,
     target_chain_id |-> target_chain_id,
     target_sequence_number |-> target_sequence_number]

\* The rows event_auth_chain_links may hold when the job starts.
ChainLinks ==
    { ChainLink(1, 2, 2, 1), ChainLink(2, 1, 1, 1), ChainLink(2, 2, 1, 2) }

PurgeBatchSizes == {1, 2, 3}

\* Line 1128: e.event_id IS NOT NULL of the LEFT JOIN with events.
HasEvent(event_id) == \E e \in events : e.event_id = event_id

\* Lines 1129-1131: the rows after current_event_id, ORDER BY event_id ASC.
RECURSIVE OrderedEntries(_)
OrderedEntries(S) ==
    IF S = {} THEN <<>>
    ELSE LET first == CHOOSE c \in S :
                 \A o \in S \ {c} : StrLess(c.event_id, o.event_id)
         IN  <<first>> \o OrderedEntries(S \ {first})

PurgeRows(current_event_id, batch_size) ==
    LimitRows(OrderedEntries({ c \in event_auth_chains :
                                 StrLess(current_event_id, c.event_id) }),
              batch_size)

\* Every row of the batch counts as purged.
EveryRow(rows) == { rows[i] : i \in 1..Len(rows) }

\* Lines 1141-1147: the rows of the batch whose event has been purged.
Unreferenced(rows) ==
    { c \in { rows[i] : i \in 1..Len(rows) } : ~ HasEvent(c.event_id) }

\* Lines 1124-1177: the transaction of an invocation: it deletes the
\* unreferenced entries and the links they are the origin of and writes the
\* progress; with no rows it changes nothing.
purged_chain_cover_txn(batch_size) ==
    /\ purged_chain_cover_job.pc = "idle"
    /\ ~ purged_chain_cover_job.ended
    /\ LET current_event_id ==
               ProgressGet(purged_chain_cover_progress, "current_event_id",
                           <<>>)
           rows == PurgeRows(current_event_id, batch_size)
           unreferenced == Unreferenced(rows)
       IN  IF rows = <<>>
           THEN /\ purged_chain_cover_job' =
                     [purged_chain_cover_job EXCEPT !.pc = "end", !.result = 0]
                /\ UNCHANGED <<event_auth_chains, event_auth_chain_links, purged_chain_cover_progress>>
           ELSE /\ event_auth_chains' = event_auth_chains \ unreferenced
                /\ event_auth_chain_links' =
                     { l \in event_auth_chain_links :
                         ~ \E c \in unreferenced :
                              /\ l.origin_chain_id = c.chain_id
                              /\ l.origin_sequence_number = c.sequence_number }
                /\ purged_chain_cover_progress' =
                     [current_event_id |-> rows[Len(rows)].event_id]
                /\ purged_chain_cover_job' =
                     [purged_chain_cover_job EXCEPT
                        !.result = Len(rows), !.batches = @ + 1]
    /\ UNCHANGED events

\* Lines 1184-1187: the job is ended when the transaction read no row.
purged_end_background_update ==
    /\ purged_chain_cover_job.pc = "end"
    /\ purged_chain_cover_job' =
         [purged_chain_cover_job EXCEPT !.pc = "idle", !.ended = TRUE]
    /\ UNCHANGED <<events, event_auth_chains, event_auth_chain_links, purged_chain_cover_progress>>

PurgeInit ==
    /\ \E entries \in SUBSET ChainEntries, ids \in SUBSET PurgeEventIds, links \in SUBSET ChainLinks :
          /\ event_auth_chains = entries
          /\ events = { [event_id |-> id] : id \in ids }
          /\ event_auth_chain_links = links
          /\ purged_chain_cover_job =
               [pc |-> "idle", ended |-> FALSE, result |-> 0, batches |-> 0,
                entries |-> entries, links |-> links]
    /\ purged_chain_cover_progress = EmptyMap
    /\ state_events = {}
    /\ event_auth_chain_to_calculate = {}
    /\ rooms = {}
    /\ chain_cover_progress = {}
    /\ chain_cover_job = {}
    /\ chain_cover_history = {}
    /\ SyncAtRest
    /\ CleanupAtRest
    /\ JoinedAtRest
    /\ SnapshotAtRest
    /\ ReindexAtRest

PurgeFrame == UNCHANGED <<sync_vars, cleanup_only_vars, state_events, event_auth_chain_to_calculate, rooms, chain_cover_progress, chain_cover_job, chain_cover_history, joined_only_vars, snapshot_only_vars, reindex_only_vars>>

PurgeBatch == \E batch_size \in PurgeBatchSizes : purged_chain_cover_txn(batch_size)

PurgeNext ==
    \/ PurgeBatch /\ PurgeFrame
    \/ purged_end_background_update /\ PurgeFrame

PurgeSpec == PurgeInit /\ [][PurgeNext]_purge_vars

\* The entries, of those stored when the job started, whose event is gone.
PurgedEntries ==
    { c \in purged_chain_cover_job.entries : ~ HasEvent(c.event_id) }

LinkFrom(l, c) ==
    /\ l.origin_chain_id = c.chain_id
    /\ l.origin_sequence_number = c.sequence_number

\* C21: when the job has run to completion, with no concurrent change, the
\* entries left are the entries whose event still exists and the links left
\* are the links that do not originate from an entry whose event is gone:
\* every such entry and link is deleted, and nothing else is.
PurgeDeletesExactlyTheUnreferenced ==
    purged_chain_cover_job.ended =>
       /\ event_auth_chains = purged_chain_cover_job.entries \ PurgedEntries
       /\ event_auth_chain_links =
            { l \in purged_chain_cover_job.links :
                ~ \E c \in PurgedEntries : LinkFrom(l, c) }

\* The job has ended after several batches, having deleted an entry and a
\* link and kept an entry and a link that originates from a kept entry.
PurgeDeletedSomeAndKeptSome ==
    /\ purged_chain_cover_job.ended
    /\ purged_chain_cover_job.batches >= 2
    /\ PurgedEntries # {}
    /\ event_auth_chains # {}
    /\ purged_chain_cover_job.links \ event_auth_chain_links # {}
    /\ \E l \in event_auth_chain_links : \E c \in event_auth_chains : LinkFrom(l, c)

-----------------------------------------------------------------------------
(* Joined-rooms backfill: the sliding_sync_joined_rooms_backfill update    *)
(* (_sliding_sync_joined_rooms_backfill, lines 1545-1722), running while   *)
(* live persistence changes the current state of rooms.                    *)

joined_vars == <<joined_only_vars>>

\* Room ids, in increasing order "a" < "b" < "m".
JoinedRoomIds == {<<"a">>, <<"b">>, <<"m">>}

JoinedBatchSizes == {1, 2, 3}

\* The stream ids live persistence gives to the state deltas it writes
\* while the job runs.
DeltaStreamIds == {1, 2}

\* last_successful_room_id = None.
NoRoom == <<"n", "n">>

\* The stream id of the last row of current_state_delta_stream of the room,
\* read in the transaction that reads the current state (line 1585-1591).
LastDeltaStreamId(room_id) ==
    LET ids == { d.stream_id : d \in { x \in current_state_delta_stream :
                                         x.room_id = room_id } }
    IN  IF ids = {} THEN 0 ELSE CHOOSE i \in ids : \A j \in ids : j <= i

\* get_last_event_pos_in_room: a state delta is an event of the room.
LastEventPos(room_id) == LastDeltaStreamId(room_id)

\* Lines 1646-1655: get_current_state_deltas_for_room_txn from the gathered
\* stream id, exclusive, to now.
DeltasSince(room_id, stream_id) ==
    { d \in current_state_delta_stream :
        d.room_id = room_id /\ d.stream_id > stream_id }

\* The check finds no delta.
NoRelevantDelta(room_id, stream_id) == {}

\* Lines 1656-1662: the deltas whose (event type, state key) is in
\* SLIDING_SYNC_RELEVANT_STATE_SET.
RelevantDeltasSince(room_id, stream_id) ==
    { d \in DeltasSince(room_id, stream_id) : d.relevant }

\* Lines 1553-1567: SELECT DISTINCT room_id FROM current_state_events WHERE
\* room_id > ? ORDER BY room_id ASC LIMIT ?.
RECURSIVE OrderedRoomIds(_)
OrderedRoomIds(S) ==
    IF S = {} THEN <<>>
    ELSE LET first == CHOOSE r \in S : \A o \in S \ {r} : StrLess(r, o)
         IN  <<first>> \o OrderedRoomIds(S \ {first})

RoomsToUpdate(last_room_id, batch_size) ==
    LimitRows(OrderedRoomIds({ r \in DOMAIN current_state_events :
                                 StrLess(last_room_id, r) }),
              batch_size)

\* Lines 1638-1679: the position, in the order of the batch, of the first
\* room with a relevant delta since its state was gathered; 0 when there is
\* none.
StaleIndex(gathered) ==
    LET stale == { i \in 1..Len(gathered) :
                     RelevantDeltasSince(
                        gathered[i].room_id,
                        gathered[i].last_current_state_delta_stream_id) # {} }
    IN  IF stale = {} THEN 0 ELSE CHOOSE i \in stale : \A j \in stale : i <= j

\* Lines 1693-1707: INSERT ... ON CONFLICT (room_id) DO UPDATE SET the state
\* columns; event_stream_ordering and bump_stamp of a row that exists stay.
UpsertJoinedRoom(table, g) ==
    [r \in DOMAIN table \cup {g.room_id} |->
        IF r # g.room_id THEN table[r]
        ELSE IF r \in DOMAIN table
        THEN [table[r] EXCEPT !.state = g.state]
        ELSE [state |-> g.state,
              event_stream_ordering |-> g.event_stream_ordering,
              bump_stamp |-> g.bump_stamp]]

\* Only the first room of the batch is written.
UpsertFirstJoinedRoom(table, gathered) ==
    IF gathered = <<>> THEN table
    ELSE UpsertJoinedRoom(table, Head(gathered))

RECURSIVE UpsertJoinedRooms(_, _)
UpsertJoinedRooms(table, gathered) ==
    IF gathered = <<>> THEN table
    ELSE UpsertJoinedRooms(UpsertJoinedRoom(table, Head(gathered)),
                           Tail(gathered))

\* Lines 1664-1669: the progress the transaction writes before it raises.
ProgressBeforeRaise(progress, last_successful_room_id, room_id) ==
    IF last_successful_room_id # NoRoom
    THEN [last_room_id |-> room_id]
    ELSE progress

\* A transaction whose function raises is rolled back: nothing it wrote is
\* kept.
RolledBack(before, written) == before

JoinedIdleJob ==
    [pc |-> "idle", ended |-> FALSE, batch_size |-> 0,
     rooms_to_update |-> <<>>, gathered |-> <<>>]

\* Lines 1551-1572: the rooms of the batch are read.
joined_get_rooms_to_update(batch_size) ==
    /\ joined_rooms_job.pc = "idle"
    /\ ~ joined_rooms_job.ended
    /\ LET last_room_id ==
               ProgressGet(joined_rooms_progress, "last_room_id", <<>>)
           rooms_to_update == RoomsToUpdate(last_room_id, batch_size)
       IN  /\ joined_rooms_job' =
                [joined_rooms_job EXCEPT
                   !.pc = IF rooms_to_update = <<>> THEN "end" ELSE "state",
                   !.batch_size = batch_size,
                   !.rooms_to_update = rooms_to_update,
                   !.gathered = <<>>]
           /\ joined_rooms_history' =
                [joined_rooms_history EXCEPT
                   !.scanned = @ \cup { rooms_to_update[i] :
                                          i \in 1..Len(rooms_to_update) },
                   !.invocations = @ + 1,
                   !.checkpoint = last_room_id]
    /\ UNCHANGED <<current_state_events, current_state_delta_stream, sliding_sync_joined_rooms, joined_rooms_progress>>

\* Lines 1574-1578: no room is left; the job is ended.
joined_end_background_update ==
    /\ joined_rooms_job.pc = "end"
    /\ joined_rooms_job' = [joined_rooms_job EXCEPT !.pc = "idle", !.ended = TRUE]
    /\ UNCHANGED <<current_state_events, current_state_delta_stream, sliding_sync_joined_rooms, joined_rooms_progress, joined_rooms_history>>

\* Lines 1584-1610: the current state of the next room of the batch and the
\* stream id of its last delta are read in one transaction; the insert
\* values are computed from the events of that state.
joined_gather_state ==
    /\ joined_rooms_job.pc = "state"
    /\ LET room_id ==
               joined_rooms_job.rooms_to_update[Len(joined_rooms_job.gathered) + 1]
       IN  joined_rooms_job' =
             [joined_rooms_job EXCEPT
                !.pc = "pos",
                !.gathered =
                   Append(@, [room_id |-> room_id,
                              state |-> current_state_events[room_id],
                              last_current_state_delta_stream_id |->
                                  LastDeltaStreamId(room_id),
                              event_stream_ordering |-> 0,
                              bump_stamp |-> 0])]
    /\ UNCHANGED <<current_state_events, current_state_delta_stream, sliding_sync_joined_rooms, joined_rooms_progress, joined_rooms_history>>

\* Lines 1612-1632: the positions of the last event and of the last bump
\* event of the room are read.
joined_gather_positions ==
    /\ joined_rooms_job.pc = "pos"
    /\ LET i == Len(joined_rooms_job.gathered)
           room_id == joined_rooms_job.gathered[i].room_id
       IN  joined_rooms_job' =
             [joined_rooms_job EXCEPT
                !.pc = IF i = Len(joined_rooms_job.rooms_to_update)
                       THEN "write" ELSE "state",
                !.gathered[i].event_stream_ordering = LastEventPos(room_id),
                !.gathered[i].bump_stamp = LastEventPos(room_id)]
    /\ UNCHANGED <<current_state_events, current_state_delta_stream, sliding_sync_joined_rooms, joined_rooms_progress, joined_rooms_history>>

\* Lines 1634-1714: the write transaction.  When a room of the batch has a
\* relevant delta since its state was gathered the transaction raises, is
\* rolled back, and the invocation fails; otherwise every room of the batch
\* is upserted.
joined_backfill_table_txn ==
    /\ joined_rooms_job.pc = "write"
    /\ LET gathered == joined_rooms_job.gathered
           stale == StaleIndex(gathered)
           last_successful_room_id ==
               IF stale > 1 THEN gathered[stale - 1].room_id ELSE NoRoom
       IN  IF stale # 0
           THEN /\ sliding_sync_joined_rooms' =
                     RolledBack(sliding_sync_joined_rooms,
                                UpsertJoinedRooms(sliding_sync_joined_rooms,
                                                  SubSeq(gathered, 1, stale - 1)))
                /\ joined_rooms_progress' =
                     RolledBack(joined_rooms_progress,
                                ProgressBeforeRaise(joined_rooms_progress,
                                                    last_successful_room_id,
                                                    gathered[stale].room_id))
                /\ joined_rooms_job' =
                     [joined_rooms_job EXCEPT
                        !.pc = "idle", !.rooms_to_update = <<>>,
                        !.gathered = <<>>]
                /\ joined_rooms_history' =
                     [joined_rooms_history EXCEPT
                        !.aborts = @ + 1,
                        !.abort =
                           [room_id |-> gathered[stale].room_id,
                            last_successful_room_id |-> last_successful_room_id,
                            batch_size |-> joined_rooms_job.batch_size,
                            invocation |-> joined_rooms_history.invocations]]
           ELSE /\ sliding_sync_joined_rooms' =
                     UpsertJoinedRooms(sliding_sync_joined_rooms, gathered)
                /\ joined_rooms_job' = [joined_rooms_job EXCEPT !.pc = "progress"]
                /\ joined_rooms_history' =
                     [joined_rooms_history EXCEPT !.commits = @ + 1]
                /\ UNCHANGED joined_rooms_progress
    /\ UNCHANGED <<current_state_events, current_state_delta_stream>>

\* Lines 1716-1722: the progress is written, in a transaction of its own.
joined_update_progress ==
    /\ joined_rooms_job.pc = "progress"
    /\ joined_rooms_progress' =
         [last_room_id |->
             joined_rooms_job.rooms_to_update[Len(joined_rooms_job.rooms_to_update)]]
    /\ joined_rooms_job' =
         [joined_rooms_job EXCEPT
            !.pc = "idle", !.rooms_to_update = <<>>, !.gathered = <<>>]
    /\ UNCHANGED <<current_state_events, current_state_delta_stream, sliding_sync_joined_rooms, joined_rooms_history>>

\* Live persistence changes the current state of a room: it appends a row
\* to current_state_delta_stream and keeps the row of the room in
\* sliding_sync_joined_rooms, when there is one, up to date.
persist_state_delta(room_id, relevant) ==
    LET stream_id == Cardinality(current_state_delta_stream) + 1
        state == IF relevant THEN current_state_events[room_id] + 1
                 ELSE current_state_events[room_id]
    IN  /\ stream_id \in DeltaStreamIds
        /\ room_id \in DOMAIN current_state_events
        /\ current_state_delta_stream' =
             current_state_delta_stream \cup
                {[stream_id |-> stream_id, room_id |-> room_id,
                  relevant |-> relevant]}
        /\ current_state_events' = [current_state_events EXCEPT ![room_id] = state]
        /\ sliding_sync_joined_rooms' =
             IF room_id \in DOMAIN sliding_sync_joined_rooms
             THEN [sliding_sync_joined_rooms EXCEPT
                     ![room_id] = [state |-> state,
                                   event_stream_ordering |-> stream_id,
                                   bump_stamp |-> stream_id]]
             ELSE sliding_sync_joined_rooms
        /\ UNCHANGED <<joined_rooms_progress, joined_rooms_job, joined_rooms_history>>

NoAbort ==
    [room_id |-> NoRoom, last_successful_room_id |-> NoRoom,
     batch_size |-> 0, invocation |-> 0]

JoinedInit ==
    /\ \E room_ids \in SUBSET JoinedRoomIds :
          /\ current_state_events = [r \in room_ids |-> 0]
          /\ \E present \in SUBSET (room_ids \cap {<<"a">>}) :
                sliding_sync_joined_rooms =
                   [r \in present |->
                      [state |-> 0, event_stream_ordering |-> 0,
                       bump_stamp |-> 0]]
    /\ current_state_delta_stream = {}
    /\ joined_rooms_progress = EmptyMap
    /\ joined_rooms_job = JoinedIdleJob
    /\ joined_rooms_history =
         [scanned |-> {}, invocations |-> 0, checkpoint |-> <<>>,
          aborts |-> 0, abort |-> NoAbort, commits |-> 0]
    /\ events = {}
    /\ SyncAtRest
    /\ CleanupAtRest
    /\ ChainAtRest
    /\ PurgeAtRest
    /\ SnapshotAtRest
    /\ ReindexAtRest

JoinedFrame == UNCHANGED <<sync_vars, cleanup_vars, chain_only_vars, purge_only_vars, snapshot_only_vars, reindex_only_vars>>

JoinedGetRooms == \E batch_size \in JoinedBatchSizes : joined_get_rooms_to_update(batch_size)

StateDelta == \E room_id \in JoinedRoomIds, relevant \in BOOLEAN : persist_state_delta(room_id, relevant)

\* The steps of the handler.
JoinedJobNext ==
    \/ JoinedGetRooms /\ JoinedFrame
    \/ joined_end_background_update /\ JoinedFrame
    \/ joined_gather_state /\ JoinedFrame
    \/ joined_gather_positions /\ JoinedFrame
    \/ joined_backfill_table_txn /\ JoinedFrame
    \/ joined_update_progress /\ JoinedFrame

JoinedNext ==
    \/ JoinedJobNext
    \/ StateDelta /\ JoinedFrame

\* The background updater keeps invoking the handler until the job is
\* ended; each of its transactions completes.
JoinedSpec == JoinedInit /\ [][JoinedNext]_joined_vars /\ WF_joined_vars(JoinedJobNext)

-----------------------------------------------------------------------------
(* Properties of the joined-rooms backfill.                                *)

\* A step in which the write transaction raises.
AbortsNow == joined_rooms_history'.aborts # joined_rooms_history.aborts

\* A step in which the write transaction commits.
CommitsNow == joined_rooms_history'.commits # joined_rooms_history.commits

RoomAtMost(room_id, last_room_id) ==
    room_id = last_room_id \/ StrLess(room_id, last_room_id)

\* C22: when the write transaction finds a relevant delta for a room of the
\* batch that is not the first one, the progress persisted afterwards is
\* the id of the room processed just before the affected one, and the rooms
\* up to that one have their rows.
AbortPersistsProgressOfPreviousRoom ==
    [][AbortsNow /\ joined_rooms_history'.abort.last_successful_room_id # NoRoom =>
          /\ joined_rooms_progress' =
               [last_room_id |-> joined_rooms_history'.abort.last_successful_room_id]
          /\ \A room_id \in joined_rooms_history.scanned :
                RoomAtMost(room_id, joined_rooms_history'.abort.last_successful_room_id)
                   => room_id \in DOMAIN sliding_sync_joined_rooms'
      ]_joined_vars

\* C23: for every interleaving with live state changes, the state columns
\* of every row the write transaction of the backfill commits are those of
\* the current state of the room at commit time: the state gathered for the
\* room has not been superseded by a relevant delta.
BackfillNeverCommitsStaleState ==
    [][CommitsNow =>
          \A i \in 1..Len(joined_rooms_job.gathered) :
             LET g == joined_rooms_job.gathered[i]
             IN  /\ g.state = current_state_events[g.room_id]
                 /\ sliding_sync_joined_rooms'[g.room_id].state =
                       current_state_events[g.room_id]
      ]_joined_vars

\* A batch was aborted for a room whose state had changed, and a later
\* batch has committed the row of that room with its new state.
CommittedAfterAbort ==
    /\ joined_rooms_history.aborts >= 1
    /\ joined_rooms_history.commits >= 1
    /\ "last_room_id" \in DOMAIN joined_rooms_progress
    /\ RoomAtMost(joined_rooms_history.abort.room_id, joined_rooms_progress.last_room_id)
    /\ joined_rooms_history.abort.room_id \in DOMAIN sliding_sync_joined_rooms
    /\ sliding_sync_joined_rooms[joined_rooms_history.abort.room_id].state >= 1

\* Every room of current_state_events has a row.
EveryRoomHasRow == DOMAIN current_state_events \subseteq DOMAIN sliding_sync_joined_rooms

-----------------------------------------------------------------------------
(* Membership-snapshot backfill: the                                       *)
(* sliding_sync_membership_snapshots_backfill update                       *)
(* (_sliding_sync_membership_snapshots_backfill, lines 1724-2040), running *)
(* while users forget rooms and live persistence stores new memberships.   *)
(* Here the rows of events carry sender, outlier and unsigned.             *)

snapshot_vars == <<events, snapshot_only_vars>>

SnapshotRoom == <<"a">>

SnapshotUsers == {"u1", "u2"}

Sender == "s"

\* Membership values; the last one is none of join, invite, knock, leave,
\* ban.
Join == "join"
Invite == "invite"
Knock == "knock"
Leave == "leave"
Ban == "ban"
OtherMembership == "other"

\* Event ids by stream ordering.
MembershipEventIds == <<"m1", "m2", "m3", "m4", "m5">>

\* One membership event of a history: membership and events.outlier.
Step(membership, outlier) == [membership |-> membership, outlier |-> outlier]

\* Membership histories of user u1 in the room, oldest event first.  Every
\* invite and knock carries stripped state.
MembershipHistories ==
    { <<Step(Join, FALSE)>>,
      <<Step(Invite, TRUE)>>,
      <<Step(Knock, TRUE)>>,
      <<Step(Invite, TRUE), Step(Leave, TRUE)>>,
      <<Step(Knock, TRUE), Step(Leave, TRUE)>>,
      <<Step(Join, FALSE), Step(Leave, FALSE)>>,
      <<Step(Join, FALSE), Step(Ban, FALSE)>>,
      <<Step(Invite, TRUE), Step(Ban, TRUE)>>,
      <<Step(Knock, TRUE), Step(Invite, TRUE), Step(Leave, TRUE)>>,
      <<Step(Knock, TRUE), Step(Leave, TRUE), Step(Leave, TRUE)>>,
      <<Step(Join, FALSE), Step(OtherMembership, FALSE)>> }

\* Membership histories of user u2: none, or a single event that precedes
\* those of u1 in stream ordering.
OtherUserHistories ==
    { <<>>, <<Step(Join, FALSE)>>, <<Step(OtherMembership, FALSE)>> }

\* The memberships live persistence may store for u1 while the job runs.
LiveMemberships == { Step(Invite, TRUE), Step(Join, FALSE) }

SnapshotBatchSizes == {1, 2}

\* progress.get("last_event_stream_ordering", -(1 << 31)).
MinStreamOrdering == (-2147483647) - 1

None == [kind |-> "none"]

\* The stripped state an invite or knock event carries in unsigned.
StrippedState(event_id) == [kind |-> "stripped", event_id |-> event_id]

\* The current state of the room (get_current_state_ids, line 1837).
CurrentStateOf(room_id) == [kind |-> "current", room_id |-> room_id]

\* The state of the room at an event (get_state_ids_for_event, line 1920).
HistoricalStateAt(event_id) == [kind |-> "historical", event_id |-> event_id]

\* event.unsigned of a membership event.
Unsigned(event_id, membership) ==
    IF membership = Invite
    THEN [invite_room_state |-> StrippedState(event_id)]
    ELSE IF membership = Knock
    THEN [knock_room_state |-> StrippedState(event_id)]
    ELSE EmptyMap

\* unsigned.get(key).
UnsignedGet(unsigned, key) ==
    IF key \in DOMAIN unsigned THEN unsigned[key] ELSE None

\* PersistEventsStore._get_sliding_sync_insert_values_from_state_map, with
\* has_known_state set by the caller (lines 1859-1869, 1938-1948).
InsertValuesFromStateMap(state_map) ==
    [has_known_state |-> TRUE, state |-> state_map]

\* PersistEventsStore._get_sliding_sync_insert_values_from_stripped_state_txn
\* (lines 1908-1912): has_known_state tells whether stripped state was
\* given.
InsertValuesFromStrippedState(raw_stripped_state_events) ==
    [has_known_state |-> raw_stripped_state_events # None,
     state |-> raw_stripped_state_events]

EventRowOf(event_id) == CHOOSE e \in events : e.event_id = event_id

\* The rows of a history, with stream orderings from first on.
HistoryRows(user_id, history, first) ==
    { [event_id |-> MembershipEventIds[first + i - 1],
       room_id |-> SnapshotRoom, user_id |-> user_id,
       membership |-> history[i].membership,
       event_stream_ordering |-> first + i - 1,
       outlier |-> history[i].outlier] : i \in 1..Len(history) }

MembershipRow(h) ==
    [event_id |-> h.event_id, room_id |-> h.room_id, user_id |-> h.user_id,
     membership |-> h.membership,
     event_stream_ordering |-> h.event_stream_ordering, forgotten |-> FALSE]

MembershipEvent(h) ==
    [event_id |-> h.event_id, sender |-> Sender, outlier |-> h.outlier,
     unsigned |-> Unsigned(h.event_id, h.membership)]

CurrentMembership(h) ==
    [room_id |-> h.room_id, user_id |-> h.user_id, event_id |-> h.event_id,
     membership |-> h.membership,
     event_stream_ordering |-> h.event_stream_ordering]

\* The last row of a non-empty set of rows of a history.
LastOf(rows) ==
    CHOOSE h \in rows :
       \A o \in rows : o.event_stream_ordering <= h.event_stream_ordering

\* Lines 1738-1755: local_current_membership INNER JOIN events, after the
\* checkpoint, ORDER BY event_stream_ordering ASC.
RECURSIVE OrderedByStream(_)
OrderedByStream(S) ==
    IF S = {} THEN <<>>
    ELSE LET first == CHOOSE c \in S :
                 \A o \in S : c.event_stream_ordering <= o.event_stream_ordering
         IN  <<first>> \o OrderedByStream(S \ {first})

MembershipsToUpdate(last_event_stream_ordering, batch_size) ==
    LimitRows(
       OrderedByStream(
          { [room_id |-> c.room_id, user_id |-> c.user_id,
             sender |-> EventRowOf(c.event_id).sender,
             membership_event_id |-> c.event_id,
             membership |-> c.membership,
             membership_event_stream_ordering |-> c.event_stream_ordering,
             event_stream_ordering |-> c.event_stream_ordering,
             is_outlier |-> EventRowOf(c.event_id).outlier]
            : c \in { x \in local_current_membership :
                        /\ \E e \in events : e.event_id = x.event_id
                        /\ x.event_stream_ordering > last_event_stream_ordering } }),
       batch_size)

\* Lines 1774-1801: the membership event of the room and user that precedes
\* the given stream ordering.
FindPreviousMembership(room_id, user_id, stream_ordering) ==
    LET before == { m \in room_memberships :
                      /\ m.room_id = room_id
                      /\ m.user_id = user_id
                      /\ m.event_stream_ordering < stream_ordering }
    IN  CHOOSE m \in before :
           \A o \in before : o.event_stream_ordering <= m.event_stream_ordering

\* Every membership passes the assertion.
AnyMembership(membership) ==
    TRUE

\* Lines 1821-1827: the assertion on membership.
HandledMembership(membership) ==
    membership \in {Join, Invite, Knock, Leave, Ban}

\* Lines 1873-1917: the insert values from the stripped state of the invite
\* or knock event, which for an outlier leave is the previous membership
\* event.
StrippedStateInsertMap(row) ==
    LET previous ==
            FindPreviousMembership(row.room_id, row.user_id,
                                   row.membership_event_stream_ordering)
        invite_or_knock_event_id ==
            IF row.membership = Leave /\ row.is_outlier
            THEN previous.event_id ELSE row.membership_event_id
        invite_or_knock_membership ==
            IF row.membership = Leave /\ row.is_outlier
            THEN previous.membership ELSE row.membership
        invite_or_knock_event == EventRowOf(invite_or_knock_event_id)
        raw_stripped_state_events ==
            IF invite_or_knock_membership = Invite
            THEN UnsignedGet(invite_or_knock_event.unsigned, "invite_room_state")
            ELSE IF invite_or_knock_membership = Knock
            THEN UnsignedGet(invite_or_knock_event.unsigned, "knock_room_state")
            ELSE None
    IN  InsertValuesFromStrippedState(raw_stripped_state_events)

\* Lines 1833-1948: the insert values of a row, by membership.
SnapshotInsertMap(row) ==
    IF row.membership = Join
    THEN InsertValuesFromStateMap(CurrentStateOf(row.room_id))
    ELSE IF \/ row.membership \in {Invite, Knock}
            \/ row.membership = Leave /\ row.is_outlier
    THEN StrippedStateInsertMap(row)
    ELSE InsertValuesFromStateMap(HistoricalStateAt(row.membership_event_id))

\* Line 2001: SELECT forgotten FROM room_memberships WHERE event_id = ?.
ForgottenOf(event_id) ==
    (CHOOSE m \in room_memberships : m.event_id = event_id).forgotten

SnapshotRow(g, forgotten) ==
    [room_id |-> g.room_id, user_id |-> g.user_id, sender |-> g.sender,
     membership_event_id |-> g.membership_event_id,
     membership |-> g.membership, forgotten |-> forgotten,
     event_stream_ordering |-> g.membership_event_stream_ordering,
     insert_map |-> g.insert_map]

SameKey(row, g) == row.room_id = g.room_id /\ row.user_id = g.user_id

\* Every column of the row that exists is replaced.
ReplaceSnapshot(table, g) ==
    { row \in table : ~ SameKey(row, g) }
       \cup {SnapshotRow(g, ForgottenOf(g.membership_event_id))}

\* Lines 1994-2019: INSERT ... ON CONFLICT (room_id, user_id) DO UPDATE SET
\* forgotten = EXCLUDED.forgotten.
UpsertSnapshot(table, g) ==
    IF \E row \in table : SameKey(row, g)
    THEN { IF SameKey(row, g)
           THEN [row EXCEPT !.forgotten = ForgottenOf(g.membership_event_id)]
           ELSE row : row \in table }
    ELSE table \cup {SnapshotRow(g, ForgottenOf(g.membership_event_id))}

RECURSIVE UpsertSnapshots(_, _)
UpsertSnapshots(table, to_insert) ==
    IF to_insert = <<>> THEN table
    ELSE UpsertSnapshots(UpsertSnapshot(table, Head(to_insert)), Tail(to_insert))

SnapshotIdleJob ==
    [pc |-> "idle", ended |-> FALSE, rows |-> <<>>, to_insert |-> <<>>]

\* Lines 1730-1766: the memberships of the batch are read.
snapshot_find_memberships_to_update(batch_size) ==
    /\ membership_snapshots_job.pc = "idle"
    /\ ~ membership_snapshots_job.ended
    /\ LET last_event_stream_ordering ==
               ProgressGet(membership_snapshots_progress,
                           "last_event_stream_ordering", MinStreamOrdering)
           rows == MembershipsToUpdate(last_event_stream_ordering, batch_size)
       IN  /\ membership_snapshots_job' =
                [membership_snapshots_job EXCEPT
                   !.pc = IF rows = <<>> THEN "end" ELSE "gather",
                   !.rows = rows, !.to_insert = <<>>]
    /\ UNCHANGED <<events, local_current_membership, room_memberships, sliding_sync_membership_snapshots, membership_snapshots_progress, membership_snapshots_history>>

\* Lines 1768-1772: no membership is left; the job is ended.
snapshot_end_background_update ==
    /\ membership_snapshots_job.pc = "end"
    /\ membership_snapshots_job' =
         [membership_snapshots_job EXCEPT !.pc = "idle", !.ended = TRUE]
    /\ UNCHANGED <<events, local_current_membership, room_memberships, sliding_sync_membership_snapshots, membership_snapshots_progress, membership_snapshots_history>>

\* Lines 1810-1968: the next row of the batch is handled.  A membership
\* that is not handled raises AssertionError and the invocation fails.
snapshot_gather_row ==
    /\ membership_snapshots_job.pc = "gather"
    /\ LET i == Len(membership_snapshots_job.to_insert) + 1
           row == membership_snapshots_job.rows[i]
       IN  IF ~ HandledMembership(row.membership)
           THEN /\ membership_snapshots_job' =
                     [membership_snapshots_job EXCEPT
                        !.pc = "idle", !.rows = <<>>, !.to_insert = <<>>]
                /\ membership_snapshots_history' =
                     [membership_snapshots_history EXCEPT
                        !.failed = @ \cup {row.membership_event_id}]
           ELSE /\ membership_snapshots_job' =
                     [membership_snapshots_job EXCEPT
                        !.pc = IF i = Len(membership_snapshots_job.rows)
                               THEN "write" ELSE "gather",
                        !.to_insert =
                           Append(@, [room_id |-> row.room_id,
                                      user_id |-> row.user_id,
                                      sender |-> row.sender,
                                      membership_event_id |-> row.membership_event_id,
                                      membership |-> row.membership,
                                      membership_event_stream_ordering |->
                                          row.membership_event_stream_ordering,
                                      is_outlier |-> row.is_outlier,
                                      insert_map |-> SnapshotInsertMap(row)])]
                /\ UNCHANGED membership_snapshots_history
    /\ UNCHANGED <<events, local_current_membership, room_memberships, sliding_sync_membership_snapshots, membership_snapshots_progress>>

\* The invocation goes on to the progress write with no row written.
snapshot_skip_table_txn ==
    /\ membership_snapshots_job.pc = "write"
    /\ membership_snapshots_job' = [membership_snapshots_job EXCEPT !.pc = "progress"]
    /\ UNCHANGED <<events, local_current_membership, room_memberships, sliding_sync_membership_snapshots, membership_snapshots_progress, membership_snapshots_history>>

\* Lines 1970-2023: the write transaction.
snapshot_backfill_table_txn ==
    /\ membership_snapshots_job.pc = "write"
    /\ sliding_sync_membership_snapshots' =
         UpsertSnapshots(sliding_sync_membership_snapshots,
                         membership_snapshots_job.to_insert)
    /\ membership_snapshots_job' = [membership_snapshots_job EXCEPT !.pc = "progress"]
    /\ membership_snapshots_history' =
         [membership_snapshots_history EXCEPT
            !.written = @ \cup { membership_snapshots_job.to_insert[i].membership_event_stream_ordering
                                   : i \in 1..Len(membership_snapshots_job.to_insert) }]
    /\ UNCHANGED <<events, local_current_membership, room_memberships, membership_snapshots_progress>>

\* Lines 2025-2040: the progress is written, in a transaction of its own.
snapshot_update_progress ==
    /\ membership_snapshots_job.pc = "progress"
    /\ membership_snapshots_progress' =
         [last_event_stream_ordering |->
             membership_snapshots_job.rows[Len(membership_snapshots_job.rows)].membership_event_stream_ordering]
    /\ membership_snapshots_job' =
         [membership_snapshots_job EXCEPT
            !.pc = "idle", !.rows = <<>>, !.to_insert = <<>>]
    /\ UNCHANGED <<events, local_current_membership, room_memberships, sliding_sync_membership_snapshots, membership_snapshots_history>>

\* The process crashes between two transactions of an invocation; what the
\* invocation held in memory is lost.
snapshot_crash ==
    /\ membership_snapshots_job.pc \in {"gather", "write", "progress", "end"}
    /\ membership_snapshots_history.crashes = 0
    /\ membership_snapshots_job' =
         [membership_snapshots_job EXCEPT
            !.pc = "idle", !.rows = <<>>, !.to_insert = <<>>]
    /\ membership_snapshots_history' =
         [membership_snapshots_history EXCEPT !.crashes = 1]
    /\ UNCHANGED <<events, local_current_membership, room_memberships, sliding_sync_membership_snapshots, membership_snapshots_progress>>

\* A user who has left the room forgets it: every membership row of the
\* user in the room, and the snapshot row, are marked forgotten.
forget_room(user_id) ==
    /\ \E c \in local_current_membership :
          c.user_id = user_id /\ c.membership \in {Leave, Ban}
    /\ \E m \in room_memberships : m.user_id = user_id /\ ~ m.forgotten
    /\ room_memberships' =
         { IF m.user_id = user_id THEN [m EXCEPT !.forgotten = TRUE] ELSE m
             : m \in room_memberships }
    /\ sliding_sync_membership_snapshots' =
         { IF row.user_id = user_id THEN [row EXCEPT !.forgotten = TRUE] ELSE row
             : row \in sliding_sync_membership_snapshots }
    /\ UNCHANGED <<events, local_current_membership, membership_snapshots_progress, membership_snapshots_job, membership_snapshots_history>>

\* Live persistence stores a new membership event of user u1: it becomes
\* the current membership and the snapshot row of the user is replaced.
persist_membership(step) ==
    LET h == [event_id |-> MembershipEventIds[5], room_id |-> SnapshotRoom,
              user_id |-> "u1", membership |-> step.membership,
              event_stream_ordering |-> 5, outlier |-> step.outlier]
        g == [room_id |-> h.room_id, user_id |-> h.user_id, sender |-> Sender,
              membership_event_id |-> h.event_id, membership |-> h.membership,
              membership_event_stream_ordering |-> 5,
              insert_map |->
                 IF h.membership = Join
                 THEN InsertValuesFromStateMap(CurrentStateOf(h.room_id))
                 ELSE InsertValuesFromStrippedState(StrippedState(h.event_id))]
    IN  /\ ~ \E e \in events : e.event_id = h.event_id
        /\ \E c \in local_current_membership :
              c.user_id = "u1" /\ c.membership \in {Leave, Ban, Invite, Knock}
        /\ events' = events \cup {MembershipEvent(h)}
        /\ room_memberships' = room_memberships \cup {MembershipRow(h)}
        /\ local_current_membership' =
             { c \in local_current_membership : c.user_id # "u1" }
                \cup {CurrentMembership(h)}
        /\ sliding_sync_membership_snapshots' =
             { row \in sliding_sync_membership_snapshots : ~ SameKey(row, g) }
                \cup {SnapshotRow(g, FALSE)}
        /\ membership_snapshots_history' =
             [membership_snapshots_history EXCEPT !.live = @ \cup {h.event_id}]
        /\ UNCHANGED <<membership_snapshots_progress, membership_snapshots_job>>

SnapshotInit ==
    /\ \E other \in OtherUserHistories, history \in MembershipHistories :
          LET rows == HistoryRows("u2", other, 1) \cup HistoryRows("u1", history, 2)
              current ==
                 { LastOf({ h \in rows : h.user_id = user_id }) :
                      user_id \in { h.user_id : h \in rows } }
          IN  /\ events = { MembershipEvent(h) : h \in rows }
              /\ room_memberships = { MembershipRow(h) : h \in rows }
              /\ local_current_membership = { CurrentMembership(h) : h \in current }
    /\ sliding_sync_membership_snapshots = {}
    /\ membership_snapshots_progress = EmptyMap
    /\ membership_snapshots_job = SnapshotIdleJob
    /\ membership_snapshots_history =
         [failed |-> {}, written |-> {}, crashes |-> 0, live |-> {}]
    /\ SyncAtRest
    /\ CleanupAtRest
    /\ ChainAtRest
    /\ PurgeAtRest
    /\ JoinedAtRest
    /\ ReindexAtRest

SnapshotFrame == UNCHANGED <<sync_vars, cleanup_only_vars, chain_only_vars, purge_only_vars, joined_only_vars, reindex_only_vars>>

SnapshotFindMemberships == \E batch_size \in SnapshotBatchSizes : snapshot_find_memberships_to_update(batch_size)

Forget == \E user_id \in SnapshotUsers : forget_room(user_id)

LiveMembership == \E step \in LiveMemberships : persist_membership(step)

SnapshotNext ==
    \/ SnapshotFindMemberships /\ SnapshotFrame
    \/ snapshot_end_background_update /\ SnapshotFrame
    \/ snapshot_gather_row /\ SnapshotFrame
    \/ snapshot_backfill_table_txn /\ SnapshotFrame
    \/ snapshot_update_progress /\ SnapshotFrame
    \/ snapshot_crash /\ SnapshotFrame
    \/ Forget /\ SnapshotFrame
    \/ LiveMembership /\ SnapshotFrame

SnapshotSpec == SnapshotInit /\ [][SnapshotNext]_snapshot_vars

\* An invite or knock event of the same room and user that precedes the
\* gathered membership event.
EarlierInviteOrKnock(g) ==
    { m \in room_memberships :
        /\ m.room_id = g.room_id
        /\ m.user_id = g.user_id
        /\ m.membership \in {Invite, Knock}
        /\ m.event_stream_ordering < g.membership_event_stream_ordering }

\* The rows an invocation has gathered so far.
Gathered ==
    { membership_snapshots_job.to_insert[i] :
         i \in 1..Len(membership_snapshots_job.to_insert) }

\* C25: every local membership row the backfill processes gets its derived
\* columns from exactly one source, chosen by kind: a join from the current
\* state of the room, an invite or knock from the stripped state on the
\* event itself, an outlier leave from the stripped state of an earlier
\* invite or knock event, and a leave that is no outlier and every ban from
\* the historical state at the membership event.
SnapshotSourceFollowsMembershipKind ==
    \A g \in Gathered :
       /\ g.membership = Join =>
             g.insert_map = InsertValuesFromStateMap(CurrentStateOf(g.room_id))
       /\ g.membership \in {Invite, Knock} =>
             g.insert_map =
                InsertValuesFromStrippedState(StrippedState(g.membership_event_id))
       /\ g.membership = Leave /\ g.is_outlier =>
             \E m \in EarlierInviteOrKnock(g) :
                g.insert_map = InsertValuesFromStrippedState(StrippedState(m.event_id))
       /\ \/ g.membership = Leave /\ ~ g.is_outlier
          \/ g.membership = Ban
          => g.insert_map =
                InsertValuesFromStateMap(HistoricalStateAt(g.membership_event_id))

\* The last invite or knock event before the gathered membership event.
PrecedingInviteOrKnock(g) ==
    CHOOSE m \in EarlierInviteOrKnock(g) :
       \A o \in EarlierInviteOrKnock(g) :
          o.event_stream_ordering <= m.event_stream_ordering

\* C26: for every membership history that ends in an outlier leave and
\* holds an earlier invite or knock event carrying stripped state, the
\* derived columns gathered for the snapshot are those computed from the
\* stripped state of the invite or knock event that precedes the leave.
OutlierLeaveUsesPrecedingInviteOrKnock ==
    \A g \in Gathered :
       /\ g.membership = Leave
       /\ g.is_outlier
       /\ EarlierInviteOrKnock(g) # {}
       => g.insert_map =
             InsertValuesFromStrippedState(
                StrippedState(PrecedingInviteOrKnock(g).event_id))

\* The current memberships the handler does not know how to handle.
UnhandledRows ==
    { c \in local_current_membership : c.membership = OtherMembership }

\* The checkpoint of the job.
LastEventStreamOrdering ==
    ProgressGet(membership_snapshots_progress, "last_event_stream_ordering",
                MinStreamOrdering)

\* An invocation reads its batch.
SnapshotReadsNow ==
    /\ membership_snapshots_job.pc = "idle"
    /\ membership_snapshots_job'.pc \in {"gather", "end"}

\* An invocation fails on a membership it does not handle.
SnapshotFailsNow ==
    /\ membership_snapshots_job.pc = "gather"
    /\ membership_snapshots_job.rows[Len(membership_snapshots_job.to_insert) + 1].membership
          = OtherMembership
    /\ membership_snapshots_job'.pc = "idle"
    /\ membership_snapshots_history'.crashes = membership_snapshots_history.crashes

RowsReadNext ==
    { membership_snapshots_job'.rows[i].membership_event_id :
         i \in 1..Len(membership_snapshots_job'.rows) }

\* C27 as stated: after an invocation has failed on a row with a
\* membership that is not handled, every later invocation meets that row
\* again.
OffendingRowMetOnEveryLaterInvocation ==
    [][SnapshotReadsNow =>
          \A c \in UnhandledRows :
             c.event_id \in membership_snapshots_history.failed
                => c.event_id \in RowsReadNext]_snapshot_vars

\* C27, amended: a row whose membership is none of join, invite, knock,
\* leave, ban fails the invocation that meets it: no snapshot row is
\* written, not even for the rows gathered before it, the progress is not
\* advanced and the job is not ended.  No batch that holds such a row is
\* ever written, the checkpoint never reaches the row and the job never
\* ends while the row exists, and an invocation that starts with the row
\* next after the checkpoint meets it.  (A later invocation with a smaller
\* batch that stops before the row does not meet it.)
UnhandledMembershipIsFatal ==
    /\ [][SnapshotFailsNow =>
             /\ sliding_sync_membership_snapshots' = sliding_sync_membership_snapshots
             /\ membership_snapshots_progress' = membership_snapshots_progress
             /\ membership_snapshots_job'.to_insert = <<>>
             /\ ~ membership_snapshots_job'.ended]_snapshot_vars
    /\ [](membership_snapshots_job.pc \in {"write", "progress"} =>
             \A i \in 1..Len(membership_snapshots_job.rows) :
                membership_snapshots_job.rows[i].membership # OtherMembership)
    /\ [](\A c \in UnhandledRows :
             /\ LastEventStreamOrdering < c.event_stream_ordering
             /\ ~ membership_snapshots_job.ended
             /\ c.event_stream_ordering \notin membership_snapshots_history.written)
    /\ [][SnapshotReadsNow =>
             \A c \in UnhandledRows :
                (\A o \in local_current_membership :
                    o.event_stream_ordering > LastEventStreamOrdering
                       => o.event_stream_ordering >= c.event_stream_ordering)
                => c.event_id \in RowsReadNext]_snapshot_vars

\* An invocation from the start has failed on the unhandled row after it
\* gathered the row of another user: nothing is written and the progress
\* is as before.
FailedAfterGatheringAnotherRow ==
    /\ membership_snapshots_job.pc = "idle"
    /\ membership_snapshots_progress = EmptyMap
    /\ sliding_sync_membership_snapshots = {}
    /\ \E c \in UnhandledRows :
          /\ c.event_id \in membership_snapshots_history.failed
          /\ \E o \in local_current_membership :
                /\ o.membership # OtherMembership
                /\ o.event_stream_ordering < c.event_stream_ordering

\* The write transaction of the backfill commits.
SnapshotCommitsNow ==
    /\ membership_snapshots_job.pc = "write"
    /\ membership_snapshots_job'.pc = "progress"

\* C28: whatever forget actions and live membership changes interleave
\* with the backfill, the forgotten value its write transaction leaves in a
\* snapshot row is the forgotten flag, at commit time, of the membership
\* event that the row records.
BackfillLeavesForgottenOfRecordedEvent ==
    [][SnapshotCommitsNow =>
          \A g \in Gathered :
             \A row \in sliding_sync_membership_snapshots' :
                SameKey(row, g) =>
                   row.forgotten = ForgottenOf(row.membership_event_id)]_snapshot_vars

\* C29: the snapshot table holds at most one row per (room, user), and a
\* write transaction of the backfill inserts a row for a key that has none
\* and, on a key that has a row, changes nothing but forgotten; no row is
\* removed and no second row is made.
OneSnapshotRowPerRoomAndUser ==
    /\ [](\A r1, r2 \in sliding_sync_membership_snapshots :
             SameKey(r1, r2) => r1 = r2)
    /\ [][SnapshotCommitsNow =>
             /\ \A row \in sliding_sync_membership_snapshots :
                   \E after \in sliding_sync_membership_snapshots' :
                      /\ after = [row EXCEPT !.forgotten = after.forgotten]
                      /\ (\A g \in Gathered : ~ SameKey(row, g)) => after = row
             /\ \A after \in sliding_sync_membership_snapshots' :
                   \/ \E row \in sliding_sync_membership_snapshots : SameKey(row, after)
                   \/ \E g \in Gathered :
                         after = SnapshotRow(g, ForgottenOf(g.membership_event_id))
          ]_snapshot_vars

\* The write transaction has met the row that live persistence wrote for
\* a later membership event of the user, and has left its columns.
BackfillMetRowOfLaterEvent ==
    /\ membership_snapshots_job.pc = "progress"
    /\ \E g \in Gathered :
          \E row \in sliding_sync_membership_snapshots :
             /\ SameKey(row, g)
             /\ row.membership_event_id # g.membership_event_id
             /\ row.membership # g.membership

-----------------------------------------------------------------------------
(* The chain_cover update with a crash of the process between two of the   *)
(* transactions of an invocation, and no live ingestion: the source tables *)
(* are those of the start.                                                 *)

\* The process crashes between two transactions of an invocation; what the
\* invocation held in memory is lost and the update is invoked again with
\* the persisted progress.
chain_cover_crash ==
    /\ chain_cover_job.pc \in {"flag", "rescan", "finish"}
    /\ chain_cover_history.crashes = 0
    /\ chain_cover_job' =
         [chain_cover_job EXCEPT
            !.pc = "idle", !.finished = FALSE, !.total_rows_processed = 0,
            !.current_room_id = NoRoomId, !.last_depth = -1,
            !.last_stream = -1, !.finished_room_map = <<>>]
    /\ chain_cover_history' = [chain_cover_history EXCEPT !.crashes = 1]
    /\ UNCHANGED <<events, state_events, event_auth_chains, event_auth_chain_to_calculate, rooms, chain_cover_progress>>

ChainCrashNext ==
    \/ ChainCoverBatch /\ ChainFrame
    \/ chain_cover_flag_room /\ ChainFrame
    \/ chain_cover_rescan /\ ChainFrame
    \/ chain_cover_finish /\ ChainFrame
    \/ chain_cover_crash /\ ChainFrame

ChainCrashSpec == ChainInit /\ [][ChainCrashNext]_chain_vars

\* The rooms that had a state event without chain cover at the start.
RoomsToIndex ==
    { e.room_id : e \in { x \in events : x.event_id \in chain_cover_history.unindexed } }

\* The tables at the end of a run that did not crash: every state event has
\* its chain cover and exactly the rooms that had one to index are flagged.
TablesOfUncrashedRun ==
    /\ state_events \subseteq event_auth_chains
    /\ \A room_id \in ChainRooms : rooms[room_id] <=> room_id \in RoomsToIndex

UncrashedRunEnds ==
    chain_cover_job.ended /\ chain_cover_history.crashes = 0 => TablesOfUncrashedRun

\* C31: when the process crashes after some of the transactions of a batch
\* have committed and the handler is invoked again with the old progress
\* and unchanged source tables, the tables at the end of the job equal
\* those of a run without the crash.
CrashedRunEndsLikeUncrashedRun ==
    chain_cover_job.ended => TablesOfUncrashedRun

\* ---------------------------------------------------------------------
\* The redactions_received_ts update (events_bg_updates.py, lines 645-698).
\* ---------------------------------------------------------------------

\* The event ids of the redactions table; "" is the checkpoint of a job
\* that has not run yet and sorts before every id.
RedactionIds == {"r1", "r2", "r3"}

EventIdRank(event_id) ==
    CASE event_id = "" -> 0 [] event_id = "r1" -> 1
      [] event_id = "r2" -> 2 [] event_id = "r3" -> 3

\* A NULL column.
NULL == 0

\* The values self._clock.time_msec() takes, in order.
ClockTimes == {1, 2, 3}

\* Which timestamps the events row of a redaction has.
TimestampKinds == {"received_ts", "origin_server_ts", "neither"}

RedactionEvent(event_id, kind) ==
    [event_id |-> event_id,
     received_ts |-> IF kind = "received_ts" THEN 10 ELSE NULL,
     origin_server_ts |-> IF kind = "neither" THEN NULL ELSE 20]

RedactionBatchSizes == {1, 2}

\* COALESCE(a, b, c).
Coalesce(a, b, c) == IF a # NULL THEN a ELSE IF b # NULL THEN b ELSE c

\* Lines 675-678: the scalar subquery; no events row gives NULL.
ReceivedTsOf(event_id, now) ==
    IF \E e \in events : e.event_id = event_id
    THEN LET e == CHOOSE e \in events : e.event_id = event_id
         IN  Coalesce(e.received_ts, e.origin_server_ts, now)
    ELSE NULL

\* Lines 651-660: SELECT event_id FROM redactions WHERE event_id > ?
\* ORDER BY event_id ASC LIMIT ?.
RedactionRows(last_event_id, batch_size) ==
    LET after == { r.event_id : r \in { x \in redactions : EventIdRank(x.event_id) > EventIdRank(last_event_id) } }
    IN  { id \in after : Cardinality({ o \in after : EventIdRank(o) < EventIdRank(id) }) < batch_size }

\* rows[-1] of an ascending, non-empty slice.
UpperEventId(rows) ==
    CHOOSE id \in rows : \A o \in rows : EventIdRank(o) <= EventIdRank(id)

\* Line 680: WHERE ? <= event_id AND event_id <= ?.
InUpdateRange(event_id, last_event_id, upper_event_id) ==
    /\ EventIdRank(last_event_id) <= EventIdRank(event_id)
    /\ EventIdRank(event_id) <= EventIdRank(upper_event_id)

\* Lines 649-692: one transaction of the handler.  An empty slice returns
\* 0; otherwise the rows in range are rewritten and the checkpoint moves to
\* the last id read.
redactions_received_ts_txn(batch_size) ==
    /\ "redactions_received_ts" \in DOMAIN background_updates
    /\ reindex_job.pc = "idle"
    /\ LET progress == background_updates["redactions_received_ts"]
           last_event_id == ProgressGet(progress, "last_event_id", "")
           rows == RedactionRows(last_event_id, batch_size)
       IN  IF rows = {}
           THEN /\ reindex_job' = [reindex_job EXCEPT !.pc = "end", !.count = 0, !.last_event_id = last_event_id]
                /\ UNCHANGED <<redactions, background_updates, reindex_history>>
           ELSE LET upper_event_id == UpperEventId(rows)
                IN  /\ redactions' =
                         { IF InUpdateRange(r.event_id, last_event_id, upper_event_id)
                           THEN [r EXCEPT !.received_ts = ReceivedTsOf(r.event_id, clock)]
                           ELSE r : r \in redactions }
                    /\ background_updates' = [background_updates EXCEPT !["redactions_received_ts"] = [last_event_id |-> upper_event_id]]
                    /\ reindex_job' = [reindex_job EXCEPT !.count = Cardinality(rows), !.last_event_id = last_event_id, !.upper_event_id = upper_event_id]
                    /\ reindex_history' = [reindex_history EXCEPT !.read = @ \cup rows]
    /\ UNCHANGED <<events, clock>>

\* Lines 695-696: if not count, the job is ended.
redactions_end_background_update ==
    /\ reindex_job.pc = "end"
    /\ background_updates' = [n \in DOMAIN background_updates \ {"redactions_received_ts"} |-> background_updates[n]]
    /\ reindex_job' = [reindex_job EXCEPT !.pc = "idle"]
    /\ UNCHANGED <<events, redactions, clock, reindex_history>>

\* Time passes between invocations.
redactions_clock_advances ==
    /\ reindex_job.pc = "idle"
    /\ "redactions_received_ts" \in DOMAIN background_updates
    /\ \E t \in ClockTimes : t = clock + 1 /\ clock' = t
    /\ UNCHANGED <<events, redactions, background_updates, reindex_job, reindex_history>>

redactions_vars == <<events, redactions, background_updates, clock, reindex_job, reindex_history>>

RedactionsInit ==
    /\ \E ids \in SUBSET RedactionIds, kind \in [RedactionIds -> TimestampKinds] :
          /\ redactions = { [event_id |-> id, received_ts |-> NULL] : id \in ids }
          /\ events = { RedactionEvent(id, kind[id]) : id \in RedactionIds }
    /\ background_updates = [n \in {"redactions_received_ts"} |-> EmptyMap]
    /\ clock = 1
    /\ reindex_job = [pc |-> "idle", count |-> 0, last_event_id |-> "", upper_event_id |-> ""]
    /\ reindex_history = [read |-> {}]
    /\ event_labels = {}
    /\ schema = {}
    /\ SyncAtRest
    /\ CleanupAtRest
    /\ ChainAtRest
    /\ PurgeAtRest
    /\ JoinedAtRest
    /\ SnapshotAtRest

RedactionsFrame == UNCHANGED <<sync_vars, cleanup_only_vars, chain_only_vars, purge_only_vars, joined_only_vars, snapshot_only_vars, event_labels, schema>>

RedactionsBatch == \E batch_size \in RedactionBatchSizes : redactions_received_ts_txn(batch_size)

RedactionsNext ==
    \/ RedactionsBatch /\ RedactionsFrame
    \/ redactions_end_background_update /\ RedactionsFrame
    \/ redactions_clock_advances /\ RedactionsFrame

RedactionsSpec == RedactionsInit /\ [][RedactionsNext]_redactions_vars

\* C32: resume-key pagination neither revisits nor skips.  In
\* redactions_received_ts a batch leaves every row whose key is at or
\* before the persisted checkpoint as it was, and changes rows only up to
\* the new checkpoint, which is the largest key read.
RedactionsBatchWritesOnlyPastCheckpoint ==
    [][\A r \in redactions :
          /\ "redactions_received_ts" \in DOMAIN background_updates
          /\ "redactions_received_ts" \in DOMAIN background_updates'
          /\ r \notin redactions'
          => /\ EventIdRank(ProgressGet(background_updates["redactions_received_ts"], "last_event_id", "")) < EventIdRank(r.event_id)
             /\ EventIdRank(r.event_id) <= EventIdRank(ProgressGet(background_updates'["redactions_received_ts"], "last_event_id", ""))]_redactions_vars

\* ---------------------------------------------------------------------
\* The event_store_labels update (events_bg_updates.py, lines 730-793).
\* ---------------------------------------------------------------------

LabelEventIds == {"r1", "r2", "r3"}

\* What the json column of an event holds: content with a label, content
\* without labels, or text that db_to_json or the field lookups raise on.
PayloadKinds == {"labelled", "unlabelled", "malformed"}

LabelBatchSizes == {1, 2}

LabelJson(event_id, kind) == [event_id |-> event_id, kind |-> kind]

\* Lines 736-745: SELECT event_id, json FROM event_json LEFT JOIN
\* event_labels USING (event_id) WHERE event_id > ? AND label IS NULL ORDER
\* BY event_id LIMIT ?.
LabelResults(last_event_id, batch_size) ==
    LET after == { j \in event_json :
                     /\ EventIdRank(j.event_id) > EventIdRank(last_event_id)
                     /\ ~ \E l \in event_labels : l.event_id = j.event_id }
    IN  { j \in after : Cardinality({ o \in after : EventIdRank(o.event_id) < EventIdRank(j.event_id) }) < batch_size }

\* Lines 749-775: the label rows of one event; an exception is logged and
\* the event gives no row.
LabelValues(j) ==
    IF j.kind = "labelled" THEN { [event_id |-> j.event_id, label |-> "l1"] } ELSE {}

\* Lines 747-778: last_row_event_id starts as "" and ends as the id of the
\* last row of the slice.
LastRowEventId(results) ==
    IF results = {} THEN ""
    ELSE LET j == CHOOSE j \in results : \A o \in results : EventIdRank(o.event_id) <= EventIdRank(j.event_id)
         IN  j.event_id

\* Lines 734-784: one transaction of the handler.  The progress is written
\* whatever the slice holds.
event_store_labels_txn(batch_size) ==
    /\ "event_store_labels" \in DOMAIN background_updates
    /\ reindex_job.pc = "idle"
    /\ LET progress == background_updates["event_store_labels"]
           last_event_id == ProgressGet(progress, "last_event_id", "")
           results == LabelResults(last_event_id, batch_size)
       IN  /\ event_labels' = event_labels \cup UNION { LabelValues(j) : j \in results }
           /\ background_updates' = [background_updates EXCEPT !["event_store_labels"] = [last_event_id |-> LastRowEventId(results)]]
           /\ reindex_job' = [reindex_job EXCEPT !.pc = IF results = {} THEN "end" ELSE "idle", !.count = Cardinality(results), !.last_event_id = last_event_id]
           /\ reindex_history' = [reindex_history EXCEPT !.read = @ \cup { j.event_id : j \in results }]
    /\ UNCHANGED event_json

\* Lines 790-791: if not num_rows, the job is ended.
event_store_labels_end_background_update ==
    /\ reindex_job.pc = "end"
    /\ background_updates' = [n \in DOMAIN background_updates \ {"event_store_labels"} |-> background_updates[n]]
    /\ reindex_job' = [reindex_job EXCEPT !.pc = "idle"]
    /\ UNCHANGED <<event_json, event_labels, reindex_history>>

labels_vars == <<event_json, event_labels, background_updates, reindex_job, reindex_history>>

LabelsInit ==
    /\ \E ids \in SUBSET LabelEventIds, kind \in [LabelEventIds -> PayloadKinds], stored \in SUBSET {"r1"} :
          /\ event_json = { LabelJson(id, kind[id]) : id \in ids }
          /\ event_labels = { [event_id |-> id, label |-> "l0"] : id \in stored \cap ids }
    /\ background_updates = [n \in {"event_store_labels"} |-> EmptyMap]
    /\ reindex_job = [pc |-> "idle", count |-> 0, last_event_id |-> ""]
    /\ reindex_history = [read |-> {}]
    /\ redactions = {}
    /\ schema = {}
    /\ clock = 0
    /\ events = {}
    /\ event_edges = {}
    /\ rejections = {}
    /\ event_forward_extremities = {}
    /\ extremities_to_check = {}
    /\ latest_event_ids_invalidated = {}
    /\ cleanup_job = {}
    /\ cleanup_history = {}
    /\ SyncAtRest
    /\ ChainAtRest
    /\ PurgeAtRest
    /\ JoinedAtRest
    /\ SnapshotAtRest

LabelsFrame == UNCHANGED <<sync_vars, events, event_edges, rejections, event_forward_extremities, extremities_to_check, latest_event_ids_invalidated, cleanup_job, cleanup_history, chain_only_vars, purge_only_vars, joined_only_vars, snapshot_only_vars, redactions, schema, clock>>

LabelsBatch == \E batch_size \in LabelBatchSizes : event_store_labels_txn(batch_size)

LabelsNext ==
    \/ LabelsBatch /\ LabelsFrame
    \/ event_store_labels_end_background_update /\ LabelsFrame

LabelsSpec == LabelsInit /\ [][LabelsNext]_labels_vars

\* C33: monotonic checkpoints.  While the event_store_labels job has not
\* been ended, no committed transaction moves the resume key held in its
\* persisted progress backwards, the invocation that finds an empty slice
\* included.
LabelsCheckpointNeverDecreases ==
    [][/\ "event_store_labels" \in DOMAIN background_updates
       /\ "event_store_labels" \in DOMAIN background_updates'
       => EventIdRank(ProgressGet(background_updates["event_store_labels"], "last_event_id", ""))
            <= EventIdRank(ProgressGet(background_updates'["event_store_labels"], "last_event_id", ""))]_labels_vars

\* ---------------------------------------------------------------------
\* The event_edges_drop_invalid_rows update (events_bg_updates.py, lines
\* 1369-1463).
\* ---------------------------------------------------------------------

EdgeEventIds == {"r1", "r2", "r3"}

\* The rows event_edges may hold: (event_id, prev_event_id, is_state).
EdgeRows == { [event_id |-> id, prev_event_id |-> "p", is_state |-> s] : id \in EdgeEventIds, s \in BOOLEAN }

EdgeBatchSizes == {1, 2}

\* No row: fetchone() gave None.
NoEndpoint == ""

\* Lines 1388-1402: SELECT event_id FROM event_edges WHERE event_id > ?
\* ORDER BY event_id LIMIT 1 OFFSET ?: the id of the row that batch_size
\* rows precede.
Endpoint(last_event_id, batch_size) ==
    LET after == { x \in event_edges : EventIdRank(x.event_id) > EventIdRank(last_event_id) }
        reached == { x.event_id : x \in { y \in after : Cardinality({ o \in after : EventIdRank(o.event_id) <= EventIdRank(y.event_id) }) > batch_size } }
    IN  IF reached = {} THEN NoEndpoint
        ELSE CHOOSE id \in reached : \A o \in reached : EventIdRank(id) <= EventIdRank(o)

\* Lines 1404-1424: the event ids in range with a row that has is_state
\* or no row in events.
InvalidEdgeEventIds(last_event_id, endpoint) ==
    { ee.event_id : ee \in { x \in event_edges :
        /\ EventIdRank(x.event_id) > EventIdRank(last_event_id)
        /\ endpoint # NoEndpoint => EventIdRank(x.event_id) <= EventIdRank(endpoint)
        /\ x.is_state \/ ~ \E ev \in events : ev.event_id = x.event_id } }

\* Lines 1384-1452: one transaction of the handler; True (pc "end") when
\* no endpoint was found.  Line 1463: the handler returns batch_size.
drop_invalid_event_edges_txn(batch_size) ==
    /\ "event_edges_drop_invalid_rows" \in DOMAIN background_updates
    /\ reindex_job.pc = "idle"
    /\ LET progress == background_updates["event_edges_drop_invalid_rows"]
           last_event_id == ProgressGet(progress, "last_event_id", "")
           endpoint == Endpoint(last_event_id, batch_size)
           invalid == InvalidEdgeEventIds(last_event_id, endpoint)
       IN  /\ event_edges' = { x \in event_edges : x.event_id \notin invalid }
           /\ IF endpoint # NoEndpoint
              THEN /\ background_updates' = [background_updates EXCEPT !["event_edges_drop_invalid_rows"] = [last_event_id |-> endpoint]]
                   /\ reindex_job' = [reindex_job EXCEPT !.result = batch_size, !.batch_size = batch_size, !.slice = { x \in event_edges : EventIdRank(x.event_id) > EventIdRank(last_event_id) }]
                   /\ UNCHANGED schema
              ELSE /\ schema' = schema \cup {"event_edges_event_id_fkey"}
                   /\ reindex_job' = [reindex_job EXCEPT !.pc = "end", !.batch_size = batch_size, !.slice = { x \in event_edges : EventIdRank(x.event_id) > EventIdRank(last_event_id) }]
                   /\ UNCHANGED background_updates
    /\ UNCHANGED events

\* Lines 1458-1463: if done, the job is ended; the handler returns
\* batch_size.
drop_invalid_event_edges_end_background_update ==
    /\ reindex_job.pc = "end"
    /\ background_updates' = [n \in DOMAIN background_updates \ {"event_edges_drop_invalid_rows"} |-> background_updates[n]]
    /\ reindex_job' = [reindex_job EXCEPT !.pc = "idle", !.result = reindex_job.batch_size]
    /\ UNCHANGED <<events, event_edges, schema>>

edges_vars == <<events, event_edges, background_updates, schema, reindex_job>>

EdgesInit ==
    /\ \E rows \in SUBSET EdgeRows, ids \in SUBSET EdgeEventIds :
          /\ event_edges = rows
          /\ events = { [event_id |-> id] : id \in ids }
    /\ background_updates = [n \in {"event_edges_drop_invalid_rows"} |-> EmptyMap]
    /\ schema = {}
    /\ reindex_job = [pc |-> "idle", result |-> 0, batch_size |-> 0, slice |-> {}]
    /\ reindex_history = {}
    /\ redactions = {}
    /\ event_labels = {}
    /\ clock = 0
    /\ event_json = {}
    /\ rejections = {}
    /\ event_forward_extremities = {}
    /\ extremities_to_check = {}
    /\ latest_event_ids_invalidated = {}
    /\ cleanup_job = {}
    /\ cleanup_history = {}
    /\ SyncAtRest
    /\ ChainAtRest
    /\ PurgeAtRest
    /\ JoinedAtRest
    /\ SnapshotAtRest

EdgesFrame == UNCHANGED <<sync_vars, event_json, rejections, event_forward_extremities, extremities_to_check, latest_event_ids_invalidated, cleanup_job, cleanup_history, chain_only_vars, purge_only_vars, joined_only_vars, snapshot_only_vars, redactions, event_labels, clock, reindex_history>>

EdgesBatch == \E batch_size \in EdgeBatchSizes : drop_invalid_event_edges_txn(batch_size)

EdgesNext ==
    \/ EdgesBatch /\ EdgesFrame
    \/ drop_invalid_event_edges_end_background_update /\ EdgesFrame

EdgesSpec == EdgesInit /\ [][EdgesNext]_edges_vars

\* C34: the empty-slice rule of the batch job contract.  The invocation of
\* event_edges_drop_invalid_rows that ends the job returns 0.
EndingInvocationReturnsZero ==
    [][/\ "event_edges_drop_invalid_rows" \in DOMAIN background_updates
       /\ "event_edges_drop_invalid_rows" \notin DOMAIN background_updates'
       => reindex_job'.result = 0]_edges_vars

\* ---------------------------------------------------------------------
\* The event_origin_server_ts update (events_bg_updates.py, lines 376-452).
\* ---------------------------------------------------------------------

OriginEventIds == {"r1", "r2", "r3"}

\* What event_json holds for an event: a payload with origin_server_ts, a
\* payload without it, text that db_to_json cannot parse, or no row.
OriginPayloadKinds == {"well_formed", "missing_field", "unparseable", "no_row"}

OriginBatchSizes == {1, 2}

\* The lower ends of the range the job was registered with.
TargetMinStreamIds == {1, 2}

\* Lines 384-393: SELECT stream_ordering, event_id FROM events WHERE ? <=
\* stream_ordering AND stream_ordering < ? ORDER BY stream_ordering DESC
\* LIMIT ?.
OriginRows(target_min_stream_id, max_stream_id, batch_size) ==
    LET in_range == { e \in events : target_min_stream_id <= e.stream_ordering /\ e.stream_ordering < max_stream_id }
    IN  { e \in in_range : Cardinality({ o \in in_range : o.stream_ordering > e.stream_ordering }) < batch_size }

\* Line 397: rows[-1][0] of a descending, non-empty slice.
MinStreamId(rows) ==
    LET e == CHOOSE e \in rows : \A o \in rows : e.stream_ordering <= o.stream_ordering
    IN  e.stream_ordering

\* Lines 402-414: the event_json rows of the events read.
EvRows(rows) == { j \in event_json : \E e \in rows : e.event_id = j.event_id }

\* Line 417: db_to_json(json) is called outside the try of lines 418-423.
DbToJsonRaises(ev_rows) == \E j \in ev_rows : j.kind = "unparseable"

\* Lines 416-425: the events whose payload gave an origin_server_ts; a
\* KeyError or AttributeError skips the row.
RowsToUpdate(ev_rows) == { j.event_id : j \in { x \in ev_rows : x.kind = "well_formed" } }

\* Lines 383-441: one transaction of the handler.  An exception rolls the
\* transaction back and leaves the handler.
reindex_search_txn(batch_size) ==
    /\ "event_origin_server_ts" \in DOMAIN background_updates
    /\ reindex_job.pc = "idle"
    /\ LET progress == background_updates["event_origin_server_ts"]
           target_min_stream_id == progress["target_min_stream_id_inclusive"]
           max_stream_id == progress["max_stream_id_exclusive"]
           rows_inserted == ProgressGet(progress, "rows_inserted", 0)
           rows == OriginRows(target_min_stream_id, max_stream_id, batch_size)
           ev_rows == EvRows(rows)
           rows_to_update == RowsToUpdate(ev_rows)
       IN  IF rows = {}
           THEN /\ reindex_job' = [reindex_job EXCEPT !.pc = "end", !.result = 0, !.rows = {}]
                /\ UNCHANGED <<events, background_updates>>
           ELSE IF DbToJsonRaises(ev_rows)
           THEN /\ reindex_job' = [reindex_job EXCEPT !.raised = TRUE, !.rows = { e.event_id : e \in rows }]
                /\ UNCHANGED <<events, background_updates>>
           ELSE /\ events' = { IF e.event_id \in rows_to_update THEN [e EXCEPT !.origin_server_ts = 30] ELSE e : e \in events }
                /\ background_updates' = [background_updates EXCEPT !["event_origin_server_ts"] =
                       [target_min_stream_id_inclusive |-> target_min_stream_id,
                        max_stream_id_exclusive |-> MinStreamId(rows),
                        rows_inserted |-> rows_inserted + Cardinality(rows_to_update)]]
                /\ reindex_job' = [reindex_job EXCEPT !.pc = IF rows_to_update = {} THEN "end" ELSE "idle", !.result = Cardinality(rows_to_update), !.rows = { e.event_id : e \in rows }]
    /\ UNCHANGED event_json

\* Lines 447-450: if not result, the job is ended.
origin_server_ts_end_background_update ==
    /\ reindex_job.pc = "end"
    /\ background_updates' = [n \in DOMAIN background_updates \ {"event_origin_server_ts"} |-> background_updates[n]]
    /\ reindex_job' = [reindex_job EXCEPT !.pc = "idle"]
    /\ UNCHANGED <<events, event_json>>

origin_vars == <<events, event_json, background_updates, reindex_job>>

OriginInit ==
    /\ \E ids \in SUBSET OriginEventIds, kind \in [OriginEventIds -> OriginPayloadKinds], target_min_stream_id \in TargetMinStreamIds :
          /\ events = { [event_id |-> id, stream_ordering |-> EventIdRank(id), origin_server_ts |-> NULL] : id \in ids }
          /\ event_json = { [event_id |-> id, kind |-> kind[id]] : id \in { i \in ids : kind[i] # "no_row" } }
          /\ background_updates = [n \in {"event_origin_server_ts"} |->
                [target_min_stream_id_inclusive |-> target_min_stream_id,
                 max_stream_id_exclusive |-> 4,
                 rows_inserted |-> 0]]
    /\ reindex_job = [pc |-> "idle", result |-> 0, rows |-> {}, raised |-> FALSE]
    /\ reindex_history = {}
    /\ redactions = {}
    /\ event_labels = {}
    /\ schema = {}
    /\ clock = 0
    /\ event_edges = {}
    /\ rejections = {}
    /\ event_forward_extremities = {}
    /\ extremities_to_check = {}
    /\ latest_event_ids_invalidated = {}
    /\ cleanup_job = {}
    /\ cleanup_history = {}
    /\ SyncAtRest
    /\ ChainAtRest
    /\ PurgeAtRest
    /\ JoinedAtRest
    /\ SnapshotAtRest

OriginFrame == UNCHANGED <<sync_vars, event_edges, rejections, event_forward_extremities, extremities_to_check, latest_event_ids_invalidated, cleanup_job, cleanup_history, chain_only_vars, purge_only_vars, joined_only_vars, snapshot_only_vars, redactions, event_labels, schema, clock, reindex_history>>

OriginBatch == \E batch_size \in OriginBatchSizes : reindex_search_txn(batch_size)

OriginNext ==
    \/ OriginBatch /\ OriginFrame
    \/ origin_server_ts_end_background_update /\ OriginFrame

OriginSpec == OriginInit /\ [][OriginNext]_origin_vars

\* The payload kind of an event, "no_row" when event_json has no row.
PayloadKindOf(event_id) ==
    IF \E j \in event_json : j.event_id = event_id
    THEN (CHOOSE j \in event_json : j.event_id = event_id).kind
    ELSE "no_row"

\* C35: malformed payloads are skipped, never fatal.  A transaction of
\* event_origin_server_ts that read rows writes every well-formed row it
\* read and moves the checkpoint past every row it read, whatever the
\* payloads of the other rows are.
MalformedPayloadIsSkipped ==
    [][/\ "event_origin_server_ts" \in DOMAIN background_updates
       /\ reindex_job.pc = "idle"
       /\ reindex_job'.rows # {}
       => /\ \A e \in events' : e.event_id \in reindex_job'.rows /\ PayloadKindOf(e.event_id) = "well_formed" => e.origin_server_ts # NULL
          /\ \A e \in events' : e.event_id \in reindex_job'.rows => background_updates'["event_origin_server_ts"]["max_stream_id_exclusive"] <= e.stream_ordering]_origin_vars

\* C38: the event_origin_server_ts job ends only when its range is
\* exhausted: the job is ended only by an invocation whose select found no
\* event left in the range.
EndsOnlyWhenRangeExhausted ==
    [][/\ "event_origin_server_ts" \in DOMAIN background_updates
       /\ "event_origin_server_ts" \notin DOMAIN background_updates'
       => reindex_job.rows = {}]_origin_vars

\* ---------------------------------------------------------------------
\* The expansion loop of extremity cleanup, pass by pass (lines 535-570):
\* each pass draws any to_check of the chunk size from the events still
\* to look up.
\* ---------------------------------------------------------------------

\* Chunk sizes: the 100 of line 539 and sizes that split the frontiers of
\* the graphs at hand.
ChunkSizes == {1, 2, LookupChunk}

\* batch[:chunk] of list(soft_failed_events_to_lookup), whose order is
\* arbitrary.
ChunksOf(soft_failed_events_to_lookup, chunk) ==
    { c \in SUBSET soft_failed_events_to_lookup :
        Cardinality(c) = IF Cardinality(soft_failed_events_to_lookup) < chunk
                         THEN Cardinality(soft_failed_events_to_lookup) ELSE chunk }

\* Lines 535-570: one pass of the while loop.
cleanup_expand_pass(to_check) ==
    /\ cleanup_job.pc = "expand"
    /\ to_check \in ChunksOf(cleanup_job.st.soft_failed_events_to_lookup, cleanup_job.chunk)
    /\ LET st == CleanupLookup(cleanup_job.st, to_check)
       IN  cleanup_job' =
              [cleanup_job EXCEPT
                 !.st = st,
                 !.pc = IF st.soft_failed_events_to_lookup = {} THEN "done" ELSE "expand",
                 !.twice = @ \cup (to_check \cap cleanup_job.looked_up),
                 !.looked_up = @ \cup to_check,
                 !.met_again = @ \cup { x[1] : x \in { y \in event_edges : y[2] \in to_check /\ \E g \in cleanup_job.st.graph : g[1] = y[1] } }]
    /\ UNCHANGED <<events, event_edges, event_json, rejections>>

expand_vars == <<events, event_edges, event_json, rejections, cleanup_job>>

ExpandInit ==
    /\ \E edges \in SUBSET DagEdges, kinds \in [EventIds \ {"e1"} -> EventKinds], original_set \in SUBSET Candidates, chunk \in ChunkSizes :
          LET kind(e) == IF e = "e1" THEN "live" ELSE kinds[e]
          IN  /\ events = { EventRow(e, kind(e)) : e \in EventIds }
              /\ event_edges = edges
              /\ event_json = { [event_id |-> e, soft_failed |-> (kind(e) = "soft_failed")] : e \in EventIds }
              /\ rejections = { e \in EventIds : kind(e) = "rejected" }
              /\ cleanup_job =
                   [pc |-> "first", chunk |-> chunk, original_set |-> original_set,
                    st |-> [graph |-> {}, soft_failed_events_to_lookup |-> {}, non_rejected_leaves |-> {}],
                    looked_up |-> {}, twice |-> {}, met_again |-> {}]
    /\ event_forward_extremities = {}
    /\ extremities_to_check = {}
    /\ latest_event_ids_invalidated = {}
    /\ cleanup_history = {}
    /\ SyncAtRest
    /\ ChainAtRest
    /\ BackfillAtRest

\* Lines 497-530: the first pass over the batch.
cleanup_first_pass ==
    /\ cleanup_job.pc = "first"
    /\ LET st == CleanupFirstPass(cleanup_job.original_set)
       IN  cleanup_job' = [cleanup_job EXCEPT !.st = st, !.pc = IF st.soft_failed_events_to_lookup = {} THEN "done" ELSE "expand"]
    /\ UNCHANGED <<events, event_edges, event_json, rejections>>

ExpandFrame == UNCHANGED <<sync_vars, event_forward_extremities, extremities_to_check, latest_event_ids_invalidated, cleanup_history, chain_only_vars, backfill_only_vars>>

ExpandPass == \E to_check \in SUBSET EventIds : cleanup_expand_pass(to_check)

ExpandNext ==
    \/ cleanup_first_pass /\ ExpandFrame
    \/ ExpandPass /\ ExpandFrame

\* The transaction runs to its end.
ExpandSpec == ExpandInit /\ [][ExpandNext]_expand_vars /\ WF_expand_vars(ExpandNext)

\* The edges from the events looked up to their non-outlier successors.
EdgesOfLookedUp ==
    { x \in event_edges : x[2] \in cleanup_job.looked_up /\ InEvents(x[1]) /\ ~ Outlier(x[1]) }

\* C36: soft-failed frontier expansion in extremity cleanup.  On every
\* event DAG the loop ends; no event is looked up twice and only
\* soft-failed or rejected events are looked up; when the loop has ended
\* every edge from a looked-up event to a non-outlier successor is in the
\* graph, and the extremities to delete are those computed with chunks of
\* 100 drawn in a fixed order.
ExpansionIsChunkAndOrderIndependent ==
    /\ [](cleanup_job.twice = {})
    /\ [](\A e \in cleanup_job.looked_up : SoftFailed(e) \/ Rejected(e))
    /\ [](cleanup_job.pc = "done" =>
            /\ EdgesOfLookedUp \subseteq cleanup_job.st.graph
            /\ CleanupAncestors(cleanup_job.st.graph, cleanup_job.st.non_rejected_leaves, {}) \cap cleanup_job.original_set
                 = ToDelete(cleanup_job.original_set))
    /\ <>(cleanup_job.pc = "done")

\* The loop ended after looking up two events one at a time, and met an
\* event that was already in the graph.
ExpansionMetHandledEventAgain ==
    /\ cleanup_job.pc = "done"
    /\ cleanup_job.chunk = 1
    /\ Cardinality(cleanup_job.looked_up) >= 2
    /\ cleanup_job.met_again # {}
    /\ ToDelete(cleanup_job.original_set) # {}

\* ---------------------------------------------------------------------
\* Referential integrity of the room configs of sliding sync connections.
\* ---------------------------------------------------------------------

\* C37: referential integrity of room configs.  In every state reached by
\* persist and get calls, every room-config row of a live position names a
\* required-state id stored under the connection key of that position, and
\* no get call fails in the lookup of line 350.
RoomConfigsNameStoredRequiredState ==
    /\ \A r \in sliding_sync_connection_room_configs :
          \A p \in sliding_sync_connection_positions :
              p.connection_position = r.connection_position
              => \E b \in sliding_sync_connection_required_state :
                    /\ b.connection_key = p.connection_key
                    /\ b.required_state_id = r.required_state_id
    /\ last.raised # "KeyError"

\* A get call read the room configs of a position that was persisted on
\* top of another one, through the stored required states.
GetReadRoomConfigsOfSuccessor ==
    /\ last.op = "get"
    /\ last.raised = "none"
    /\ last.position = 2
    /\ \E r \in sliding_sync_connection_room_configs : r.connection_position = last.position
    /\ Cardinality(sliding_sync_connection_required_state) >= 2
    /\ Cardinality({ r.required_state_id : r \in { x \in sliding_sync_connection_room_configs : x.connection_position = last.position } }) >= 2

\* ---------------------------------------------------------------------
\* Extremity cleanup with a crash between two of its transactions.
\* ---------------------------------------------------------------------

\* The process stops between two transactions of an invocation (after the
\* batch and before the job is ended, or after the job is ended and before
\* the table is dropped) and is started again; what was committed stays.
cleanup_crash ==
    /\ cleanup_job.pc \in {"end", "drop"}
    /\ cleanup_job.crashes = 0
    /\ cleanup_job' = [cleanup_job EXCEPT !.pc = "idle", !.crashes = 1]
    /\ UNCHANGED <<events, event_edges, event_json, rejections, event_forward_extremities, extremities_to_check, latest_event_ids_invalidated, cleanup_history>>

CleanupCrashNext ==
    \/ CleanupBatch /\ CleanupOthersAtRest
    \/ cleanup_end_background_update /\ CleanupOthersAtRest
    \/ cleanup_drop_table /\ CleanupOthersAtRest
    \/ cleanup_crash /\ CleanupOthersAtRest

\* The updater keeps invoking the handler of a job that has not ended, and
\* an invocation that does not crash runs to its return.
CleanupCrashSpec ==
    CleanupForkInit /\ [][CleanupCrashNext]_cleanup_vars /\ WF_cleanup_vars(CleanupNext)

\* C39: completion of extremity cleanup is crash-safe.  Once the
\* delete_soft_failed_extremities job is marked done, the scratch table
\* _extremities_to_check has been dropped or is dropped later.
DoneJobLeadsToDroppedTable == cleanup_job.ended ~> cleanup_job.dropped

\* ---------------------------------------------------------------------
\* The one-shot schema updates event_fix_redactions_bytes (lines 700-728)
\* and replace_stream_ordering_column (lines 57-69 and 1342-1367), with a
\* crash between two transactions of an invocation.
\* ---------------------------------------------------------------------

SchemaEventIds == {"r1", "r2", "r3"}

\* The columns, rules and indexes the two updates touch, as they stand
\* before the updates run.
SchemaBefore ==
    {"redactions_censored_redacts", "events.stream_ordering", "events.stream_ordering2", "populate_stream_ordering2",
     "event_contains_url_index2", "events_order_room2", "events_room_stream2", "events_ts2"}

\* Lines 57-69: the schema after _REPLACE_STREAM_ORDERING_SQL_COMMANDS: the
\* rule and the old column are dropped, the new column and the indexes are
\* renamed into place.
ReplacedSchema(objects) ==
    (objects \ {"populate_stream_ordering2", "events.stream_ordering2", "event_contains_url_index2", "events_order_room2", "events_room_stream2", "events_ts2"})
    \cup {"events.stream_ordering", "event_contains_url_index", "events_order_room", "events_room_stream", "events_ts"}

\* Lines 57-63: the rows of events after the UPDATE and the switch of the
\* columns.
ReplacedEvents(rows) ==
    { [e EXCEPT !.stream_ordering = Coalesce(e.stream_ordering2, e.stream_ordering, NULL), !.stream_ordering2 = NULL] : e \in rows }

\* Lines 708-718: the json of censored redacted events that is stored
\* hex encoded is decoded.
FixedEventJson(rows) ==
    { IF j.hex /\ \E r \in redactions : r.have_censored /\ r.redacts = j.event_id
      THEN [j EXCEPT !.hex = FALSE] ELSE j : j \in rows }

\* Lines 706-724: the transaction of event_fix_redactions_bytes.  DROP
\* INDEX on an index that is not there fails the transaction.
event_fix_redactions_bytes_txn ==
    /\ "event_fix_redactions_bytes" \in DOMAIN background_updates
    /\ reindex_job.pc = "idle"
    /\ IF "redactions_censored_redacts" \in schema
       THEN /\ event_json' = FixedEventJson(event_json)
            /\ schema' = schema \ {"redactions_censored_redacts"}
            /\ reindex_job' = [reindex_job EXCEPT !.pc = "end_fix"]
       ELSE /\ reindex_job' = [reindex_job EXCEPT !.raised = @ \cup {"event_fix_redactions_bytes"}]
            /\ UNCHANGED <<event_json, schema>>
    /\ UNCHANGED <<events, redactions, background_updates>>

\* Line 726: the job is ended.
event_fix_redactions_bytes_end_background_update ==
    /\ reindex_job.pc = "end_fix"
    /\ background_updates' = [n \in DOMAIN background_updates \ {"event_fix_redactions_bytes"} |-> background_updates[n]]
    /\ reindex_job' = [reindex_job EXCEPT !.pc = "idle"]
    /\ UNCHANGED <<events, event_json, redactions, schema>>

\* Lines 1352-1357: ANALYZE events(stream_ordering2), which fails when the
\* column is not there.
replace_stream_ordering_analyze ==
    /\ "replace_stream_ordering_column" \in DOMAIN background_updates
    /\ reindex_job.pc = "idle"
    /\ reindex_job' =
         IF "events.stream_ordering2" \in schema
         THEN [reindex_job EXCEPT !.pc = "process"]
         ELSE [reindex_job EXCEPT !.raised = @ \cup {"replace_stream_ordering_column"}]
    /\ UNCHANGED <<events, event_json, redactions, schema, background_updates>>

\* Lines 1347-1361: the transaction that runs the SQL commands.
replace_stream_ordering_process ==
    /\ reindex_job.pc = "process"
    /\ events' = ReplacedEvents(events)
    /\ schema' = ReplacedSchema(schema)
    /\ reindex_job' = [reindex_job EXCEPT !.pc = "end_replace"]
    /\ UNCHANGED <<event_json, redactions, background_updates>>

\* Lines 1363-1365: the job is ended.
replace_stream_ordering_end_background_update ==
    /\ reindex_job.pc = "end_replace"
    /\ background_updates' = [n \in DOMAIN background_updates \ {"replace_stream_ordering_column"} |-> background_updates[n]]
    /\ reindex_job' = [reindex_job EXCEPT !.pc = "idle"]
    /\ UNCHANGED <<events, event_json, redactions, schema>>

\* The process stops between two transactions of an invocation and is
\* started again; what was committed stays, and the updater invokes the
\* handler of a job that has not ended again.
schema_job_crash ==
    /\ reindex_job.pc \in {"end_fix", "process", "end_replace"}
    /\ reindex_job.crashes = 0
    /\ reindex_job' = [reindex_job EXCEPT !.pc = "idle", !.crashes = 1, !.crashed_at = reindex_job.pc]
    /\ UNCHANGED <<events, event_json, redactions, schema, background_updates>>

schema_vars == <<events, event_json, redactions, schema, background_updates, reindex_job>>

SchemaInit ==
    /\ \E hexed \in SUBSET SchemaEventIds, censored \in SUBSET SchemaEventIds, populated \in SUBSET SchemaEventIds :
          /\ event_json = { [event_id |-> id, hex |-> (id \in hexed)] : id \in SchemaEventIds }
          /\ redactions = { [redacts |-> id, have_censored |-> (id \in censored)] : id \in SchemaEventIds }
          /\ events = { [event_id |-> id, stream_ordering |-> EventIdRank(id),
                         stream_ordering2 |-> IF id \in populated THEN EventIdRank(id) ELSE NULL] : id \in SchemaEventIds }
    /\ schema = SchemaBefore
    /\ background_updates = [n \in {"event_fix_redactions_bytes", "replace_stream_ordering_column"} |-> EmptyMap]
    /\ reindex_job = [pc |-> "idle", raised |-> {}, crashes |-> 0, crashed_at |-> "idle"]
    /\ reindex_history = {}
    /\ event_labels = {}
    /\ clock = 0
    /\ event_edges = {}
    /\ rejections = {}
    /\ event_forward_extremities = {}
    /\ extremities_to_check = {}
    /\ latest_event_ids_invalidated = {}
    /\ cleanup_job = {}
    /\ cleanup_history = {}
    /\ SyncAtRest
    /\ ChainAtRest
    /\ PurgeAtRest
    /\ JoinedAtRest
    /\ SnapshotAtRest

SchemaFrame == UNCHANGED <<sync_vars, event_edges, rejections, event_forward_extremities, extremities_to_check, latest_event_ids_invalidated, cleanup_job, cleanup_history, chain_only_vars, purge_only_vars, joined_only_vars, snapshot_only_vars, event_labels, clock, reindex_history>>

SchemaNext ==
    \/ event_fix_redactions_bytes_txn /\ SchemaFrame
    \/ event_fix_redactions_bytes_end_background_update /\ SchemaFrame
    \/ replace_stream_ordering_analyze /\ SchemaFrame
    \/ replace_stream_ordering_process /\ SchemaFrame
    \/ replace_stream_ordering_end_background_update /\ SchemaFrame
    \/ schema_job_crash /\ SchemaFrame

SchemaSpec == SchemaInit /\ [][SchemaNext]_schema_vars

\* C40: one-shot schema jobs are safe to re-execute.  After a crash that
\* follows the committed data and DDL transaction of
\* event_fix_redactions_bytes or replace_stream_ordering_column and comes
\* before the end of the job, no later invocation of the handler fails.
OneShotJobSucceedsAfterCrash ==
    reindex_job.crashed_at \in {"end_fix", "end_replace"} => reindex_job.raised = {}

=============================================================================
